---- MODULE Spec2Model ----
(***************************************************************************)
(* State-machine model of python-limitlessled: the Bridge (command queue,  *)
(* consumer thread, keep-alive thread, handshake, close) of                *)
(* limitlessled/bridge.py and the per-group pipeline worker of             *)
(* limitlessled/pipeline.py and limitlessled/group/__init__.py.            *)
(***************************************************************************)
EXTENDS Integers, Sequences, FiniteSets, TLC

\* ------------------------------------------------------------------ bounds
\* Number of commands submitted through Bridge.send in one behaviour.
MaxCmds == 2
\* Number of socket sends the network lets succeed in one behaviour.
MaxSends == 3
\* Largest repetition count given to Bridge.send.
MaxReps == 2
\* Number of close() calls in one behaviour.
MaxCloses == 2
\* Commands and close() calls in a behaviour checked for termination.
LiveCmds == 1
LiveCloses == 1
\* Pipelines enqueued in a behaviour checked for termination.
LivePipes == 1

\* Number of pipelines enqueued on the group in one behaviour.
MaxPipes == 2
\* Largest iterations argument of the repeat stages of the enqueued pipelines.
MaxIter == 2
\* Number of stage executions the worker performs in one pipeline run.
MaxExec == 12
\* property setter calls a device thread makes
MaxCalls == 2
\* how far outside [0, 1] the values given to a setter go, in units of 1/One
MaxOver == 1

\* ------------------------------------------------------- program constants
REPS == 3
BRIDGE_VERSION == 6
STARTING_SEQUENTIAL_BYTE == 2
LEGACY_VERSION == 5
BRIGHTNESS_STEPS == 10
TEMPERATURE_STEPS == 10
MAX_BRIGHTNESS == 100
MAX_TEMPERATURE == 100

Versions == {LEGACY_VERSION, BRIDGE_VERSION}
Groups == {1, 2}
\* Operations of the white command set a caller submits: on needs no
\* selection, brighter is sent with select=True and select_command=on().
Ops == {"on", "brighter"}
RepsValues == 1..MaxReps
Threads == {"consumer", "keepalive", "main"}
NoThread == "none"
\* _selected_number = None
NoGroup == 0
\* The sentinel close() puts on the queue.
Sentinel == [ticket |-> 0, group |-> NoGroup, op |-> "None", select |-> FALSE, reps |-> 0]

\* ---------------------------------------------------------------- stages
\* Stage(name, args, kwargs); repeat carries iterations (absent = forever)
\* and stages.
St(name) ==
    [name |-> name, forever |-> FALSE, iterations |-> 0, stages |-> 0, arg |-> 0]
Repeat(n, k) ==
    [name |-> "repeat", forever |-> FALSE, iterations |-> n, stages |-> k, arg |-> 0]
RepeatForever(k) ==
    [name |-> "repeat", forever |-> TRUE, iterations |-> 0, stages |-> k, arg |-> 0]
\* Pipeline().brightness(v): the stage's first positional argument.
Brightness(v) ==
    [name |-> "brightness", forever |-> FALSE, iterations |-> 0, stages |-> 0,
     arg |-> v]

\* The pipelines a caller enqueues: two plain stages followed by a repeat of
\* the last one or two of them; [on, flash, repeat(iterations=3, stages=1)];
\* a repeat without iteration limit followed by another stage; and a repeat
\* that replays another repeat; and two repeats of separate stages.
Pipelines ==
    { <<St("on"), St(b), Repeat(n, k)>> :
        b \in {"wait", "callback"}, n \in 1..MaxIter, k \in 1..2 }
    \cup { <<St("on"), St("flash"), Repeat(3, 1)>>,
           <<St("on"), St("flash"), RepeatForever(2), St("off")>>,
           <<St("on"), Repeat(2, 1), Repeat(2, 2)>>,
           <<St("on"), Repeat(2, 1), St("off"), Repeat(2, 1)>> }

\* flash is not running.
NotFlashing == 0 - 1
\* The group the worker belongs to.
WorkerGroup == 1

VARIABLES
    version,        \* Bridge.version
    is_ready,       \* Bridge.is_ready
    is_closed,      \* Bridge.is_closed
    sn,             \* Bridge._sn
    selected,       \* Bridge._selected_number
    lock,           \* holder of Bridge._lock
    active,         \* Bridge.active
    command_queue,  \* Bridge._command_queue
    pc,             \* position of each bridge thread
    sub,            \* position of each thread inside _send_raw
    tmp,            \* value of self._sn loaded by _send_raw before the store
    cmsg,           \* consumer: the dequeued (command, reps, wait)
    crep,           \* consumer: index of the repetition loop
    ccached,        \* _selected_number when the consumer dequeued cmsg
    cready,         \* is_ready when the consumer dequeued cmsg
    cfail,          \* a frame of cmsg has failed to send
    awaiting,       \* keep-alive: send_next_keep_alive_at < need_response_by
    response,       \* keep-alive: what the wait for a response yielded
    xpc,            \* position of the caller of close()
    nCloses,        \* close() calls completed
    nextTicket,     \* order number given to the next submitted command
    nSent,          \* successful socket sends so far
    sending,        \* threads currently inside socket.send
    isent,          \* _send_raw returned True at line 251 of the handshake in progress
    wire            \* frames the consumer has transmitted, in order

bvars == <<version, is_ready, is_closed, sn, selected, lock, active,
           command_queue, pc, sub, tmp, cmsg, crep, ccached, cready, cfail, awaiting,
           response, xpc, nCloses, nextTicket, nSent, sending, isent, wire>>

VARIABLES
    pqueue,         \* Group._queue: pipelines waiting for the worker
    event,          \* Group._event: the cancellation flag
    on,             \* Group._on
    wpc,            \* position of the PipelineQueue worker thread
    wpipe,          \* the pipeline the worker is running
    wrun,           \* order number of the pipeline the worker is running
    wtop,           \* index of the for loop of Pipeline.run
    wcur,           \* index argument of the current _execute_stage call
    wstack,         \* frames of the _repeat calls in progress
    wflash,         \* index of the for loop of Group.flash
    wop,            \* command the on setter is about to send
    nextPipe,       \* order number given to the next enqueued pipeline
    cancelled,      \* whether and when the stop event was set for the current run
    elog,           \* stage executions of the current run, in order
    qmark           \* length of the command queue when the run started

pvars == <<pqueue, event, on, wpc, wpipe, wrun, wtop, wcur, wstack, wflash, wop,
           nextPipe, cancelled, elog, qmark>>

VARIABLES
    led_type,       \* led type the group was created with
    attrs,          \* Group._brightness, _hue, _saturation, _temperature
    dpc,            \* position of the device thread inside a property setter
    dprop,          \* the property being set
    dval,           \* the value given to the setter
    dleft,          \* _setter: step commands still to send
    dsent,          \* commands the setter call has submitted so far
    draised,        \* the setter call raised ValueError
    nCalls          \* setter calls made

svars == <<led_type, attrs, dpc, dprop, dval, dleft, dsent, draised, nCalls>>

VARIABLES
    groups,         \* Bridge.groups
    nWorkers,       \* PipelineQueue threads started for groups of the bridge
    apc,            \* position of the caller of add_group
    atype,          \* led_type argument of add_group
    anumber,        \* number argument of add_group
    araised         \* add_group raised ValueError

fvars == <<groups, nWorkers, apc, atype, anumber, araised>>

\* The variables of the parts of the library other than the bridge threads,
\* the pipeline worker and the property setters.
VARIABLES
    calc,           \* the last call of a function of the library and its result
    color           \* RgbwGroup._color

\* The variables a call of add_group leaves alone.
VARIABLES
    objs,           \* the caller's Pipeline object, its copies and their runs
    rated,          \* a group's wait and reps and the wrappers of rate running
    zone            \* a legacy bridge's _selected_number and the frames it sent

\* State of the callers of Group.enqueue and of the rate decorator.
ovars == <<objs, rated, zone>>

cvars == <<calc, color, ovars>>

xvars == <<fvars, cvars>>

gvars == <<svars, xvars>>

vars == <<bvars, pvars, gvars>>

\* ------------------------------------------------------------ command sets
\* CommandSetWhiteLegacy / CommandSetWhiteV6: which commands carry select=True.
RequiresSelect(op) == op \in {"brighter"}

\* A (command, reps, wait) tuple as Bridge.send enqueues it.
Msg(t, g, op, r) ==
    [ticket |-> t, group |-> g, op |-> op, select |-> RequiresSelect(op), reps |-> r]

\* The condition of bridge.py line 202.
NeedsSelectIfFlagged(m, sel) == m.select
NeedsSelect(m, sel) == m.select /\ sel # m.group

\* CommandV6.get_bytes raises when the bridge is not ready; CommandLegacy
\* never raises.
GetBytesRaises == version >= 6 /\ ~is_ready

\* ------------------------------------------------------------------- Init
BridgeInit ==
    /\ version \in Versions
    /\ is_ready = (version < 6)
    /\ is_closed = FALSE
    /\ sn = STARTING_SEQUENTIAL_BYTE
    /\ selected = NoGroup
    /\ lock = NoThread
    /\ active = 0
    /\ command_queue = <<>>
    /\ pc = [t \in Threads |->
               IF t = "consumer" THEN "c_loop"
               ELSE IF t = "main" THEN (IF version >= 6 THEN "i_lock" ELSE "m_done")
               ELSE "k_off"]
    /\ sub = [t \in Threads |-> "idle"]
    /\ tmp = [t \in Threads |-> 0]
    /\ cmsg = Sentinel
    /\ crep = 0
    /\ ccached = NoGroup
    /\ cready = FALSE
    /\ cfail = FALSE
    /\ awaiting = TRUE
    /\ response = "none"
    /\ xpc = "x_idle"
    /\ nCloses = 0
    /\ nextTicket = 1
    /\ nSent = 0
    /\ sending = {}
    /\ isent = FALSE
    /\ wire = <<>>

PipeInit ==
    /\ pqueue = <<>>
    /\ event = FALSE
    /\ on = FALSE
    /\ wpc = "w_clear"
    /\ wpipe = <<>>
    /\ wrun = 0
    /\ wtop = 1
    /\ wcur = 1
    /\ wstack = <<>>
    /\ wflash = NotFlashing
    /\ wop = FALSE
    /\ nextPipe = 1
    /\ cancelled = "no"
    /\ elog = <<>>
    /\ qmark = 0

\* ------------------------------------------------------------------ groups
DIMMER == "dimmer"
WHITE == "white"
RGBW == "rgbw"
RGBWW == "rgbww"
BRIDGE_LED == "bridge-led"
LedTypes == {DIMMER, WHITE, RGBW, RGBWW}

\* Property values are multiples of 1/One: One stands for 1.0.
One == 2
Values == (0 - MaxOver)..(One + MaxOver)
Properties == {"brightness", "hue", "saturation", "temperature"}

\* command_set_factory: the led types that have a command set for a bridge
\* version (SUPPORTED_VERSIONS and SUPPORTED_LED_TYPES).
Supported(v, type) == IF v >= 6 THEN type \in LedTypes ELSE type \in {WHITE, RGBW}

\* Group.__init__ and the constructors of the group classes: _brightness
\* 0.5, _hue 0, _saturation 0, _temperature 0.5; no setter call in progress.
GroupInit(types) ==
    /\ led_type \in types
    /\ attrs = [p \in Properties |->
                 IF p \in {"brightness", "temperature"} THEN One \div 2 ELSE 0]
    /\ dpc = "d_idle"
    /\ dprop = "none"
    /\ dval = 0
    /\ dleft = 0
    /\ dsent = 0
    /\ draised = FALSE
    /\ nCalls = 0

\* bridge.py line 80: self.groups = []; lines 99-101: a generation-6 bridge
\* creates the group of its own led, which starts that group's worker. No
\* call of add_group is in progress.
GroupsInit ==
    /\ groups = <<>>
    /\ nWorkers = (IF version >= 6 THEN 1 ELSE 0)
    /\ apc = "a_idle"
    /\ atype = "none"
    /\ anumber = 0
    /\ araised = FALSE

\* No function has been called yet.
NoCalc == [fn |-> "none", args |-> <<>>, out |-> <<>>, raised |-> "none"]

\* rgbw.py line 13: RGB_WHITE = Color(255, 255, 255); line 29: _color starts
\* as RGB_WHITE.
RGB_WHITE == "white"

\* Devices a caller enqueues a pipeline on.
Devices == {1, 2}
\* Pipeline.__init__ (pipeline.py lines 76-77): _pipe = [], _group = None.
NoDevice == 0
SourceId == 1
NewPipeline == [pipe |-> <<>>, group |-> NoDevice]
\* No worker is running a pipeline.
NoRun == 0

\* The caller has constructed one Pipeline; nothing is enqueued.
ObjsInit ==
    objs = [heap |-> <<NewPipeline>>,
            queue |-> [d \in Devices |-> <<>>],
            run |-> [d \in Devices |-> NoRun],
            idx |-> [d \in Devices |-> 0],
            taken |-> <<0>>,
            log |-> <<>>]

\* The threads that call rate-limited methods of one group.
Callers == {"caller", "worker"}
\* MIN_WAIT, in thousandths of a second.
MIN_WAIT == 100

\* Group.__init__, group/__init__.py lines 65-66.
RatedInit ==
    rated = [wait |-> MIN_WAIT, reps |-> REPS,
             pc |-> [t \in Callers |-> "idle"],
             args |-> [t \in Callers |-> <<MIN_WAIT, REPS>>],
             saved_wait |-> [t \in Callers |-> MIN_WAIT],
             saved_reps |-> [t \in Callers |-> REPS],
             raised |-> [t \in Callers |-> FALSE]]

\* Bridge.__init__, bridge.py line 90: _selected_number = None.
NoneSelected == 0
ZoneInit == zone = [selected |-> NoneSelected, wire |-> <<>>]

OtherInit == ObjsInit /\ RatedInit /\ ZoneInit

RestInit == GroupsInit /\ calc = NoCalc /\ color = RGB_WHITE /\ OtherInit

\* The group of the pipeline worker is a white group.
Init == BridgeInit /\ PipeInit /\ GroupInit({WHITE}) /\ RestInit

\* --------------------------------------------------------------- _send_raw
Goto(t, l) == pc' = [pc EXCEPT ![t] = l]

threadLocals == <<sub, tmp>>
closerVars == <<xpc, nCloses>>
history == <<nextTicket, nSent, wire>>

\* The places _send_raw is called from: the selection frame (line 203), the
\* primary frame (line 213), the initialization frame (line 251) and the
\* keep-alive frame (line 287).
SendSites == {"c_sel_send", "c_send", "i_send", "k_send"}

\* Where a thread continues when _send_raw returns.
AfterSend(site) ==
    CASE site = "c_sel_send" -> "c_rep"
      [] site = "c_send" -> "c_rep"
      [] site = "i_send" -> "i_recv"
      [] site = "k_send" -> "k_select"

\* What the caller does with the result of _send_raw: the consumer marks the
\* bridge not ready on failure (lines 208, 217), caches the selected group
\* after the selection frame (line 204) and goes to the next repetition;
\* the keep-alive loop starts the response window (line 288).
ReadyKeptAfterSend(site, ok) == is_ready
ReadyLostOnSelectOnly(site, ok) ==
    IF site = "c_sel_send" /\ ~ok THEN FALSE ELSE is_ready
ReadyAfterSend(site, ok) ==
    IF site \in {"c_sel_send", "c_send"} /\ ~ok THEN FALSE ELSE is_ready
SelectedAfterSend(site, ok) ==
    IF site = "c_sel_send" /\ ok THEN cmsg.group ELSE selected
\* Whether a frame of the command the consumer holds has failed.
FailedAfterSend(site) == IF site \in {"c_sel_send", "c_send"} THEN TRUE ELSE cfail
RepAfterSend(site) == IF site = "c_send" THEN crep + 1 ELSE crep
AwaitingAfterSend(site) == IF site = "k_send" THEN TRUE ELSE awaiting
\* line 251: the handshake discards the result of _send_raw.
SentAfterSend(site, ok) == IF site = "i_send" THEN ok ELSE isent

\* The frame the consumer puts on the wire at a send site.
Frame(site) ==
    [ticket |-> cmsg.ticket, group |-> cmsg.group,
     kind |-> IF site = "c_sel_send" THEN "select" ELSE "primary",
     select |-> cmsg.select, cached |-> ccached]

\* line 233: the thread calls socket.send.
EnterSend(t, site) ==
    /\ pc' = [pc EXCEPT ![t] = site]
    /\ sub' = [sub EXCEPT ![t] = "insend"]
    /\ sending' = sending \cup {t}

\* socket.send returns: the frame is on the wire and line 234 loads self._sn.
SendOk(t) ==
    /\ sub[t] = "insend"
    /\ nSent < MaxSends
    /\ sub' = [sub EXCEPT ![t] = "store"]
    /\ sending' = sending \ {t}
    /\ tmp' = [tmp EXCEPT ![t] = sn]
    /\ nSent' = nSent + 1
    /\ wire' = IF t = "consumer" THEN Append(wire, Frame(pc[t])) ELSE wire
    /\ UNCHANGED <<version, response, isent, is_ready, is_closed, sn, selected, lock, active,
                   command_queue, pc, cmsg, crep, ccached, cready, cfail, awaiting,
                   closerVars, nextTicket, pvars, gvars>>

\* lines 236-238: _send_raw catches socket.error and socket.timeout and
\* returns False to its caller, which goes on as after any _send_raw.
RaiseFromSend(site) ==
    CASE site \in {"c_sel_send", "c_send"} -> "c_dead"
      [] site = "k_send" -> "k_done"
      [] site = "i_send" -> AfterSend(site)
ReturnFromSend(site) == AfterSend(site)

\* socket.send raises socket.error / socket.timeout: _send_raw returns False.
SendFail(t) ==
    /\ sub[t] = "insend"
    /\ sub' = [sub EXCEPT ![t] = "idle"]
    /\ sending' = sending \ {t}
    /\ is_ready' = ReadyAfterSend(pc[t], FALSE)
    /\ crep' = RepAfterSend(pc[t])
    /\ awaiting' = AwaitingAfterSend(pc[t])
    /\ Goto(t, ReturnFromSend(pc[t]))
    /\ isent' = SentAfterSend(pc[t], FALSE)
    /\ cfail' = FailedAfterSend(pc[t])
    /\ UNCHANGED <<version, response, is_closed, sn, selected, lock, active,
                   command_queue, tmp, cmsg, ccached, cready,
                   closerVars, history, pvars, gvars>>

\* The value line 234 stores in self._sn.
NextSn(loaded) == (loaded + 1) % 256

\* line 234 stores self._sn; _send_raw returns True.
SendStore(t) ==
    /\ sub[t] = "store"
    /\ sn' = NextSn(tmp[t])
    /\ sub' = [sub EXCEPT ![t] = "idle"]
    /\ selected' = SelectedAfterSend(pc[t], TRUE)
    /\ crep' = RepAfterSend(pc[t])
    /\ awaiting' = AwaitingAfterSend(pc[t])
    /\ Goto(t, AfterSend(pc[t]))
    /\ tmp' = [tmp EXCEPT ![t] = 0]
    /\ isent' = SentAfterSend(pc[t], TRUE)
    /\ UNCHANGED <<version, response, is_ready, is_closed, lock, active,
                   command_queue, cmsg, ccached, cready, cfail,
                   closerVars, history, sending, pvars, gvars>>

SendRaw == \E t \in Threads : SendOk(t) \/ SendFail(t) \/ SendStore(t)

\* ------------------------------------------------------------- Bridge.send
\* A device thread enqueues (command, reps, wait); the sleep that follows
\* changes no state.
Send(g, op, r) ==
    /\ pc["main"] = "m_done"
    /\ command_queue' = Append(command_queue, Msg(nextTicket, g, op, r))
    /\ nextTicket' = nextTicket + 1
    /\ UNCHANGED <<version, response, isent, is_ready, is_closed, sn, selected, lock, active,
                   pc, cmsg, crep, ccached, cready, cfail, awaiting,
                   threadLocals, closerVars, nSent, sending, wire, pvars, gvars>>

\* ---------------------------------------------------------------- _consume
\* line 186: while not self.is_closed
ConsumeLoop ==
    /\ pc["consumer"] = "c_loop"
    /\ Goto("consumer", IF is_closed THEN "c_done" ELSE "c_get")
    /\ UNCHANGED <<version, response, isent, is_ready, is_closed, sn, selected, lock, active,
                   command_queue, cmsg, crep, ccached, cready, cfail, awaiting,
                   threadLocals, closerVars, history, sending, pvars, gvars>>

\* queue.Queue.get takes the oldest entry.
DequeueLast(q) == Len(q)
DequeueIndex(q) == 1
Dequeue(q) == q[DequeueIndex(q)]
Remaining(q) ==
    SubSeq(q, 1, DequeueIndex(q) - 1) \o SubSeq(q, DequeueIndex(q) + 1, Len(q))

\* lines 188-192: msg = self._command_queue.get(); return on the sentinel.
ConsumeGet ==
    /\ pc["consumer"] = "c_get"
    /\ command_queue # <<>>
    /\ LET msg == Dequeue(command_queue) IN
         /\ command_queue' = Remaining(command_queue)
         /\ IF msg = Sentinel
              THEN /\ Goto("consumer", "c_done")
                   /\ UNCHANGED <<cmsg, ccached, cready, cfail>>
              ELSE /\ Goto("consumer", "c_lock")
                   /\ cmsg' = msg
                   /\ ccached' = selected
                   /\ cready' = is_ready
                   /\ cfail' = FALSE
    /\ UNCHANGED <<version, response, isent, is_ready, is_closed, sn, selected, lock, active,
                   crep, awaiting, threadLocals, closerVars, history, sending,
                   pvars, gvars>>

\* lines 196-202: with self._lock: if self.is_ready: ... if command.select
\* and self._selected_number != command.group_number. When the bridge is
\* not ready the with block ends at once.
ConsumeLock ==
    /\ pc["consumer"] = "c_lock"
    /\ lock = NoThread
    /\ IF is_ready
         THEN /\ lock' = "consumer"
              /\ crep' = 0
              /\ Goto("consumer", IF NeedsSelect(cmsg, selected)
                                    THEN "c_sel_bytes" ELSE "c_rep")
              /\ UNCHANGED <<cmsg, ccached, cready, cfail>>
         ELSE /\ Goto("consumer", "c_post")
              /\ cmsg' = Sentinel
              /\ ccached' = NoGroup
              /\ cready' = FALSE
              /\ cfail' = FALSE
              /\ UNCHANGED <<lock, crep>>
    /\ UNCHANGED <<version, response, isent, is_ready, is_closed, sn, selected, active,
                   command_queue, awaiting,
                   threadLocals, closerVars, history, sending, pvars, gvars>>

\* lines 203 and 213: command.get_bytes(self), then _send_raw. An exception
\* raised by get_bytes leaves the with block (releasing the lock) and ends
\* the consumer thread.
ConsumeGetBytes ==
    /\ pc["consumer"] \in {"c_sel_bytes", "c_bytes"}
    /\ IF GetBytesRaises
         THEN /\ Goto("consumer", "c_dead")
              /\ lock' = NoThread
              /\ cmsg' = Sentinel
              /\ crep' = 0
              /\ ccached' = NoGroup
              /\ cready' = FALSE
              /\ cfail' = FALSE
              /\ UNCHANGED <<sub, sending>>
         ELSE /\ EnterSend("consumer", IF pc["consumer"] = "c_sel_bytes"
                                         THEN "c_sel_send" ELSE "c_send")
              /\ UNCHANGED <<lock, cmsg, crep, ccached, cready, cfail>>
    /\ UNCHANGED <<version, response, isent, is_ready, is_closed, sn, selected, active,
                   command_queue, awaiting, tmp,
                   closerVars, history, pvars, gvars>>

\* lines 211-212: for _ in range(reps): if self.is_ready; the end of the
\* loop ends the with block.
ConsumeRep ==
    /\ pc["consumer"] = "c_rep"
    /\ IF crep >= cmsg.reps
         THEN /\ Goto("consumer", "c_post")
              /\ lock' = NoThread
              /\ cmsg' = Sentinel
              /\ crep' = 0
              /\ ccached' = NoGroup
              /\ cready' = FALSE
              /\ cfail' = FALSE
         ELSE IF is_ready
         THEN /\ Goto("consumer", "c_bytes")
              /\ UNCHANGED <<lock, cmsg, crep, ccached, cready, cfail>>
         ELSE /\ crep' = crep + 1
              /\ UNCHANGED <<lock, pc, cmsg, ccached, cready, cfail>>
    /\ UNCHANGED <<version, response, isent, is_ready, is_closed, sn, selected, active,
                   command_queue, awaiting,
                   threadLocals, closerVars, history, sending, pvars, gvars>>

\* lines 220-222: if not self.is_ready and not self.is_closed: if version < 6
ConsumePost ==
    /\ pc["consumer"] = "c_post"
    /\ Goto("consumer", IF ~is_ready /\ ~is_closed /\ version < 6
                          THEN "c_sleep" ELSE "c_loop")
    /\ UNCHANGED <<version, response, isent, is_ready, is_closed, sn, selected, lock, active,
                   command_queue, cmsg, crep, ccached, cready, cfail, awaiting,
                   threadLocals, closerVars, history, sending, pvars, gvars>>

\* The value line 225 gives is_ready after the reconnect delay.
NotReadyAfterDelay == FALSE
ReadyAfterDelay == TRUE

\* lines 224-225: time.sleep(RECONNECT_TIME); self.is_ready = True
ConsumeSleep ==
    /\ pc["consumer"] = "c_sleep"
    /\ is_ready' = ReadyAfterDelay
    /\ Goto("consumer", "c_loop")
    /\ UNCHANGED <<version, response, isent, is_closed, sn, selected, lock, active,
                   command_queue, cmsg, crep, ccached, cready, cfail, awaiting,
                   threadLocals, closerVars, history, sending, pvars, gvars>>

Consume ==
    \/ ConsumeLoop \/ ConsumeGet \/ ConsumeLock \/ ConsumeGetBytes
    \/ ConsumeRep \/ ConsumePost \/ ConsumeSleep

\* -------------------------------------------------------- _init_connection
\* Called by the constructor ("main") and by _reconnect ("keepalive").
Handshakers == {"main", "keepalive"}

\* lines 248-251: self._lock.acquire(), then _send_raw of the
\* initialization frame.
InitLock(t) ==
    /\ pc[t] = "i_lock"
    /\ lock = NoThread
    /\ lock' = t
    /\ EnterSend(t, "i_send")
    /\ UNCHANGED <<version, response, isent, is_ready, is_closed, sn, selected, active,
                   command_queue, cmsg, crep, ccached, cready, cfail, awaiting, tmp,
                   closerVars, history, pvars, gvars>>

\* lines 252-261: recv_into returns and is_ready becomes True, or it raises
\* and is_ready becomes False; the finally clause releases the lock.
LockKeptOnTimeout(t, ok) == IF ok THEN NoThread ELSE t
\* line 261, in the finally clause: self._lock.release()
LockAfterRecv(t, ok) == NoThread

InitRecv(t, ok) ==
    /\ pc[t] = "i_recv"
    /\ is_ready' = ok
    /\ lock' = LockAfterRecv(t, ok)
    /\ Goto(t, "i_ret")
    /\ UNCHANGED <<version, response, isent, is_closed, sn, selected, active,
                   command_queue, cmsg, crep, ccached, cready, cfail, awaiting,
                   threadLocals, closerVars, history, sending, pvars, gvars>>

\* lines 270-273: when _init_connection returns False, _reconnect sleeps
\* RECONNECT_TIME and tests its loop condition again.
GiveUpAfterFailedRetry == "k_done"
AfterFailedRetry == "r_loop"

\* line 263: return self.is_ready, to the constructor (which then starts the
\* keep-alive thread, lines 113-115) or to _reconnect (lines 270-273).
InitReturn(t) ==
    /\ pc[t] = "i_ret"
    /\ pc' = IF t = "main"
               THEN [pc EXCEPT !["main"] = "m_done", !["keepalive"] = "k_loop"]
               ELSE [pc EXCEPT ![t] = IF is_ready THEN "k_loop"
                                       ELSE AfterFailedRetry]
    /\ isent' = FALSE
    /\ UNCHANGED <<version, response, is_ready, is_closed, sn, selected, lock, active,
                   command_queue, cmsg, crep, ccached, cready, cfail, awaiting,
                   threadLocals, closerVars, history, sending, pvars, gvars>>

Handshake ==
    \E t \in Handshakers :
        \/ InitLock(t)
        \/ (\E ok \in BOOLEAN : InitRecv(t, ok))
        \/ InitReturn(t)

\* -------------------------------------------------------------- _reconnect
\* line 269: while not self.is_closed
Reconnect ==
    /\ pc["keepalive"] = "r_loop"
    /\ Goto("keepalive", IF is_closed THEN "k_loop" ELSE "i_lock")
    /\ UNCHANGED <<version, response, isent, is_ready, is_closed, sn, selected, lock, active,
                   command_queue, cmsg, crep, ccached, cready, cfail, awaiting,
                   threadLocals, closerVars, history, sending, pvars, gvars>>

\* ------------------------------------------------------------- _keep_alive
\* lines 280-287: while not self.is_closed; if not self.is_ready:
\* self._reconnect(); if time.monotonic() > send_next_keep_alive_at:
\* _send_raw of the keep-alive frame. While a ping is unanswered
\* send_next_keep_alive_at lies in the past; after a matching response it
\* equals need_response_by and the test depends on the clock.
KeepAliveLoop(due) ==
    /\ pc["keepalive"] = "k_loop"
    /\ awaiting => due
    /\ IF is_closed
         THEN /\ Goto("keepalive", "k_done")
              /\ UNCHANGED <<sub, sending>>
         ELSE IF ~is_ready
         THEN /\ Goto("keepalive", "r_loop")
              /\ UNCHANGED <<sub, sending>>
         ELSE IF due
         THEN EnterSend("keepalive", "k_send")
         ELSE /\ Goto("keepalive", "k_select")
              /\ UNCHANGED <<sub, sending>>
    /\ response' = "none"
    /\ UNCHANGED <<version, isent, is_ready, is_closed, sn, selected, lock, active,
                   command_queue, cmsg, crep, ccached, cready, cfail, awaiting, tmp,
                   closerVars, history, pvars, gvars>>

\* What the keep-alive loop sees after waiting for a response: select.select
\* times out, or the socket is readable and recv_into yields a frame with
\* the response preamble, another frame, or an error.
SelectOutcomes == {"timeout", "match", "mismatch", "error"}

\* lines 300-303: the outcomes after which the loop sets is_ready to False:
\* recv_into raised, or select timed out with the ping unanswered.
MarksNotReadyOnErrorOnly(outcome, unanswered) == outcome = "error"
MarksNotReady(outcome, unanswered) ==
    outcome = "error" \/ (outcome = "timeout" /\ unanswered)

\* lines 291-303: the wait for a response. A matching response moves
\* send_next_keep_alive_at to need_response_by (line 299); an error, or a
\* timeout with the ping unanswered, leads to lines 301 / 306.
KeepAliveSelect(outcome) ==
    /\ pc["keepalive"] = "k_select"
    /\ response' = outcome
    /\ awaiting' = IF outcome = "match" THEN FALSE ELSE awaiting
    /\ Goto("keepalive",
            IF MarksNotReady(outcome, awaiting) THEN "k_lock" ELSE "k_loop")
    /\ UNCHANGED <<version, isent, is_ready, is_closed, sn, selected, lock, active,
                   command_queue, cmsg, crep, ccached, cready, cfail,
                   threadLocals, closerVars, history, sending, pvars, gvars>>

\* lines 301-302 and 306-307: with self._lock: self.is_ready = False
KeepAliveNotReady ==
    /\ pc["keepalive"] = "k_lock"
    /\ lock = NoThread
    /\ is_ready' = FALSE
    /\ response' = "none"
    /\ Goto("keepalive", "k_loop")
    /\ UNCHANGED <<version, isent, is_closed, sn, selected, lock, active,
                   command_queue, cmsg, crep, ccached, cready, cfail, awaiting,
                   threadLocals, closerVars, history, sending, pvars, gvars>>

KeepAlive ==
    \/ Reconnect
    \/ (\E due \in BOOLEAN : KeepAliveLoop(due))
    \/ (\E outcome \in SelectOutcomes : KeepAliveSelect(outcome))
    \/ KeepAliveNotReady

\* ------------------------------------------------------------------- close
\* close() acquires nothing: it runs whoever holds the bridge lock.
CanCloseWhenUnlocked(holder) == holder = NoThread
CanClose(holder) == TRUE

\* line 315: what close() leaves on the command queue.
QueueWithoutSentinel(q) == q
QueueAfterClose(q) == Append(q, Sentinel)

\* line 313: self.is_closed = True. close() is a method of the constructed
\* bridge, so it is called only after the constructor has returned.
CloseSetClosed ==
    /\ xpc = "x_idle"
    /\ CanClose(lock)
    /\ pc["main"] = "m_done"
    /\ is_closed' = TRUE
    /\ xpc' = "x_ready"
    /\ UNCHANGED <<version, response, isent, is_ready, sn, selected, lock, active,
                   command_queue, pc, cmsg, crep, ccached, cready, cfail, awaiting,
                   threadLocals, nCloses, history, sending, pvars, gvars>>

\* line 314: self.is_ready = False
CloseSetNotReady ==
    /\ xpc = "x_ready"
    /\ CanClose(lock)
    /\ is_ready' = FALSE
    /\ xpc' = "x_put"
    /\ UNCHANGED <<version, response, isent, is_closed, sn, selected, lock, active,
                   command_queue, pc, cmsg, crep, ccached, cready, cfail, awaiting,
                   threadLocals, nCloses, history, sending, pvars, gvars>>

\* line 315: self._command_queue.put(None)
ClosePut ==
    /\ xpc = "x_put"
    /\ CanClose(lock)
    /\ command_queue' = QueueAfterClose(command_queue)
    /\ xpc' = "x_idle"
    /\ nCloses' = nCloses + 1
    /\ UNCHANGED <<version, response, isent, is_ready, is_closed, sn, selected, lock, active,
                   pc, cmsg, crep, ccached, cready, cfail, awaiting,
                   threadLocals, history, sending, pvars, gvars>>

CloseCall == CloseSetClosed \/ CloseSetNotReady \/ ClosePut

Close == (xpc = "x_idle" => nCloses < MaxCloses) /\ CloseCall

\* The commands two device threads submit in turn while the keep-alive thread
\* runs: group 1 a command that needs selection and is repeated, group 2 one
\* that does not.
Commands == IF nextTicket % 2 = 1
              THEN {[group |-> 1, op |-> "brighter", reps |-> MaxReps]}
              ELSE {[group |-> 2, op |-> "on", reps |-> 1]}

Submit ==
    /\ nextTicket <= MaxCmds
    /\ \E c \in Commands : Send(c.group, c.op, c.reps)

\* Any command of the command set, with any repetition count.
SubmitAny ==
    /\ nextTicket <= MaxCmds
    /\ \E g \in Groups, op \in Ops, r \in RepsValues : Send(g, op, r)

\* A bridge of either generation with all its threads.
Next == Consume \/ KeepAlive \/ Handshake \/ SendRaw \/ Close \/ Submit

Spec == Init /\ [][Next]_vars

\* A bridge of a generation below 6: the constructor starts the consumer
\* only (bridge.py line 101).
LegacyInit == Init /\ version < 6

LegacyNext == Consume \/ SendRaw \/ Close \/ SubmitAny

LegacySpec == LegacyInit /\ [][LegacyNext]_vars


\* ------------------------------------------------------ PipelineQueue.run
workerCode == <<wpipe, wrun, wtop, wcur, wstack, wflash, wop>>
bridgeRest == <<version, response, isent, is_ready, is_closed, sn, selected, pc, cmsg, crep,
                ccached, cready, cfail, awaiting, threadLocals, closerVars, nSent, sending,
                wire, gvars>>

\* pipeline.py line 31: self._event.clear()
WorkerClear ==
    /\ wpc = "w_clear"
    /\ event' = FALSE
    /\ wpc' = "w_get"
    /\ UNCHANGED <<bridgeRest, lock, active, command_queue, nextTicket,
                   pqueue, on, workerCode, nextPipe, cancelled, elog, qmark>>

\* queue.Queue.get on the group's queue: the oldest pipeline.
NewestPipeline(q) == q[Len(q)]
NextPipeline(q) == Head(q)

\* pipeline.py line 32: self._queue.get().run(self._event)
WorkerGet ==
    /\ wpc = "w_get"
    /\ pqueue # <<>>
    /\ wpipe' = NextPipeline(pqueue).pipe
    /\ wrun' = NextPipeline(pqueue).id
    /\ pqueue' = Tail(pqueue)
    /\ wpc' = "w_incr"
    /\ wtop' = 1
    /\ elog' = <<>>
    /\ cancelled' = IF event THEN "stale" ELSE "no"
    /\ qmark' = Len(command_queue)
    /\ UNCHANGED <<bridgeRest, lock, active, command_queue, nextTicket,
                   event, on, wcur, wstack, wflash, wop, nextPipe>>

\* pipeline.py line 110 and bridge.py lines 137-140: incr_active
WorkerIncr ==
    /\ wpc = "w_incr"
    /\ lock = NoThread
    /\ active' = active + 1
    /\ wpc' = "w_for"
    /\ UNCHANGED <<bridgeRest, lock, command_queue, nextTicket,
                   pqueue, event, on, workerCode, nextPipe, cancelled, elog,
                   qmark>>

\* pipeline.py lines 111-112: for i, stage in enumerate(self._pipe)
WorkerFor ==
    /\ wpc = "w_for"
    /\ IF wtop > Len(wpipe)
         THEN /\ wpc' = "w_decr"
              /\ UNCHANGED wcur
         ELSE /\ wpc' = "w_exec"
              /\ wcur' = wtop
    /\ UNCHANGED <<bridgeRest, lock, active, command_queue, nextTicket,
                   pqueue, event, on, wpipe, wrun, wtop, wstack, wflash, wop,
                   nextPipe, cancelled, elog, qmark>>

\* pipeline.py line 114 and bridge.py lines 142-145: decr_active
WorkerDecr ==
    /\ wpc = "w_decr"
    /\ lock = NoThread
    /\ active' = active - 1
    /\ wpc' = "w_clear"
    /\ UNCHANGED <<bridgeRest, lock, command_queue, nextTicket,
                   pqueue, event, on, workerCode, nextPipe, cancelled, elog,
                   qmark>>

\* -------------------------------------------------- Pipeline._execute_stage
\* The frame of a _repeat call: the index of the repeat stage, stages_back,
\* times, i and forward.
RepeatFrameOneMore(index, stage) ==
    [index |-> index, back |-> stage.stages, forever |-> stage.forever,
     times |-> stage.iterations, i |-> 0, forward |-> 0]
RepeatFrame(index, stage) ==
    [index |-> index, back |-> stage.stages, forever |-> stage.forever,
     times |-> stage.iterations - 1, i |-> 0, forward |-> 0]

\* Where _execute_stage goes for a stage name (lines 155-198).
Dispatch(name) ==
    CASE name \in {"on", "off"} -> "g_set"
      [] name = "flash" -> "f_loop"
      [] name = "repeat" -> "r_while"
      [] name = "callback" -> "w_call"
      [] name = "brightness" -> "w_bright"
      [] OTHER -> "w_ret"

\* The test of line 151.
StopNeverSet == FALSE
StopIsSet == event

\* pipeline.py lines 151-198: return when the stop event is set, otherwise
\* run the stage.
ExecuteStage ==
    /\ wpc = "w_exec"
    /\ IF StopIsSet
         THEN /\ wpc' = "w_ret"
              /\ UNCHANGED <<wstack, wflash, wop, elog>>
         ELSE LET stage == wpipe[wcur] IN
              /\ Len(elog) < MaxExec
              /\ elog' = Append(elog, [index |-> wcur, depth |-> Len(wstack)])
              /\ wpc' = Dispatch(stage.name)
              /\ wop' = (stage.name = "on")
              /\ wflash' = IF stage.name = "flash" THEN 0 ELSE wflash
              /\ wstack' = IF stage.name = "repeat"
                             THEN Append(wstack, RepeatFrame(wcur, stage))
                             ELSE wstack
    /\ UNCHANGED <<bridgeRest, lock, active, command_queue, nextTicket,
                   pqueue, event, on, wpipe, wrun, wtop, wcur, nextPipe,
                   cancelled, qmark>>

\* _execute_stage returns to Pipeline.run (line 112) or to _repeat (line 222).
StageReturn ==
    /\ wpc = "w_ret"
    /\ IF wstack = <<>>
         THEN /\ wtop' = wtop + 1
              /\ wpc' = "w_for"
              /\ UNCHANGED wstack
         ELSE /\ wstack' = [wstack EXCEPT ![Len(wstack)].forward = @ + 1]
              /\ wpc' = "r_for"
              /\ UNCHANGED wtop
    /\ UNCHANGED <<bridgeRest, lock, active, command_queue, nextTicket,
                   pqueue, event, on, wpipe, wrun, wcur, wflash, wop,
                   nextPipe, cancelled, elog, qmark>>

\* group/__init__.py line 82: self._on = state
GroupSetOn ==
    /\ wpc = "g_set"
    /\ on' = wop
    /\ wpc' = "g_send"
    /\ UNCHANGED <<bridgeRest, lock, active, command_queue, nextTicket,
                   pqueue, event, workerCode, nextPipe, cancelled, elog,
                   qmark>>

\* group/__init__.py lines 83-86 and 112, bridge.py line 167: the on or off
\* command is put on the bridge's queue.
GroupSend ==
    /\ wpc = "g_send"
    /\ command_queue' = Append(command_queue,
           Msg(nextTicket, WorkerGroup, IF wop THEN "on" ELSE "off", REPS))
    /\ nextTicket' = nextTicket + 1
    /\ IF wflash = NotFlashing
         THEN /\ wpc' = "w_ret"
              /\ UNCHANGED wflash
         ELSE /\ wpc' = "f_loop"
              /\ wflash' = wflash + 1
    /\ UNCHANGED <<bridgeRest, lock, active,
                   pqueue, event, on, wpipe, wrun, wtop, wcur, wstack, wop,
                   nextPipe, cancelled, elog, qmark>>

\* group/__init__.py lines 103-105: for _ in range(2): self.on = not self.on
GroupFlash ==
    /\ wpc = "f_loop"
    /\ IF wflash < 2
         THEN /\ wop' = ~on
              /\ wpc' = "g_set"
              /\ UNCHANGED wflash
         ELSE /\ wflash' = NotFlashing
              /\ wpc' = "w_ret"
              /\ UNCHANGED wop
    /\ UNCHANGED <<bridgeRest, lock, active, command_queue, nextTicket,
                   pqueue, event, on, wpipe, wrun, wtop, wcur, wstack,
                   nextPipe, cancelled, elog, qmark>>

\* pipeline.py line 198: the callback returns, or raises and ends the worker
\* thread.
Callback(raises) ==
    /\ wpc = "w_call"
    /\ wpc' = IF raises THEN "w_dead" ELSE "w_ret"
    /\ UNCHANGED <<bridgeRest, lock, active, command_queue, nextTicket,
                   pqueue, event, on, workerCode, nextPipe, cancelled, elog,
                   qmark>>

\* ---------------------------------------------------------- Pipeline._repeat
\* The test of line 216.
RepeatStopIsSet == event

\* pipeline.py lines 215-217: while i != times: if stop.is_set(): break
RepeatWhile ==
    /\ wpc = "r_while"
    /\ LET top == wstack[Len(wstack)] IN
         IF (top.forever \/ top.i # top.times) /\ ~RepeatStopIsSet
           THEN /\ wstack' = [wstack EXCEPT ![Len(wstack)].forward = 0]
                /\ wpc' = "r_for"
           ELSE /\ wstack' = SubSeq(wstack, 1, Len(wstack) - 1)
                /\ wpc' = "w_ret"
    /\ UNCHANGED <<bridgeRest, lock, active, command_queue, nextTicket,
                   pqueue, event, on, wpipe, wrun, wtop, wcur, wflash, wop,
                   nextPipe, cancelled, elog, qmark>>

\* pipeline.py lines 218-223: for forward in range(stages_back)
RepeatFor ==
    /\ wpc = "r_for"
    /\ LET top == wstack[Len(wstack)] IN
         IF top.forward < top.back /\ ~event
           THEN /\ wcur' = top.index - top.back + top.forward
                /\ wpc' = "w_exec"
                /\ UNCHANGED wstack
           ELSE /\ wstack' = [wstack EXCEPT ![Len(wstack)].i = @ + 1]
                /\ wpc' = "r_while"
                /\ UNCHANGED wcur
    /\ UNCHANGED <<bridgeRest, lock, active, command_queue, nextTicket,
                   pqueue, event, on, wpipe, wrun, wtop, wflash, wop,
                   nextPipe, cancelled, elog, qmark>>

\* ------------------------------------------------------ Group.enqueue / stop
\* group/__init__.py lines 119-121: a copy of the pipeline is put on the
\* group's queue.
Enqueue(p) ==
    /\ nextPipe <= MaxPipes
    /\ pqueue' = Append(pqueue, [id |-> nextPipe, pipe |-> p])
    /\ nextPipe' = nextPipe + 1
    /\ UNCHANGED <<bridgeRest, lock, active, command_queue, nextTicket,
                   event, on, wpc, workerCode, cancelled, elog, qmark>>

\* A pipeline run is in progress (Pipeline.run has been entered).
Running == wpc \notin {"w_clear", "w_get", "w_dead"}
\* The worker is inside a repeat stage that has no iteration limit.
InRepeatForever == \E d \in 1..Len(wstack) : wstack[d].forever

\* group/__init__.py line 125: self._event.set()
EventUntouched == event
EventSet == TRUE

Stop ==
    /\ event' = EventSet
    /\ cancelled' = IF Running /\ InRepeatForever THEN "forever"
                    ELSE IF Running /\ cancelled = "no" THEN "run"
                    ELSE cancelled
    /\ UNCHANGED <<bridgeRest, lock, active, command_queue, nextTicket,
                   pqueue, on, wpc, workerCode, nextPipe, elog, qmark>>

Worker ==
    \/ WorkerClear \/ WorkerGet \/ WorkerIncr \/ WorkerFor \/ WorkerDecr
    \/ ExecuteStage \/ StageReturn \/ GroupSetOn \/ GroupSend \/ GroupFlash
    \/ (\E raises \in BOOLEAN : Callback(raises))
    \/ RepeatWhile \/ RepeatFor

PipeNext == Worker \/ (\E p \in Pipelines : Enqueue(p)) \/ Stop

\* The group belongs to a constructed bridge: a bridge of a generation below
\* 6 is constructed in the initial state.
LegacyGroupInit == Init /\ version < 6

PipeSpec == LegacyGroupInit /\ [][PipeNext]_vars

\* One group with its worker thread and one enqueued pipeline; the worker
\* thread is scheduled as long as it can take a step.
LiveEnqueue(p) == nextPipe <= LivePipes /\ Enqueue(p)

PipeLiveNext == Worker \/ (\E p \in Pipelines : LiveEnqueue(p)) \/ Stop

PipeFairSpec ==
    /\ LegacyGroupInit /\ [][PipeLiveNext]_vars
    /\ WF_vars(Worker)

\* A step of one thread of the bridge. The program keeps running: as long as
\* some thread of the bridge, or a caller inside close(), can take a step,
\* one of them does.
ThreadStep(t) ==
    \/ SendOk(t) \/ SendFail(t) \/ SendStore(t)
    \/ (t = "consumer" /\ Consume)
    \/ (t = "keepalive" /\ (KeepAlive \/ InitLock(t) \/ InitReturn(t)
                              \/ \E ok \in BOOLEAN : InitRecv(t, ok)))
    \/ (t = "main" /\ (InitLock(t) \/ InitReturn(t)
                         \/ \E ok \in BOOLEAN : InitRecv(t, ok)))

CloseInProgress == xpc # "x_idle" /\ CloseCall

\* The bridge of either generation with all its threads, one submitted
\* command and one call of close().
LiveSubmit ==
    /\ nextTicket <= LiveCmds
    /\ \E c \in Commands : Send(c.group, c.op, c.reps)

LiveClose == (xpc = "x_idle" => nCloses < LiveCloses) /\ CloseCall

LiveNext ==
    Consume \/ KeepAlive \/ Handshake \/ SendRaw \/ LiveClose \/ LiveSubmit

FairSpec ==
    /\ Init /\ [][LiveNext]_vars
    /\ WF_vars(CloseInProgress \/ \E t \in Threads : ThreadStep(t))

\* The owner of the bridge calls close() once.
FirstClose == (xpc = "x_idle" => nCloses = 0) /\ CloseCall

RetryNext ==
    Consume \/ KeepAlive \/ Handshake \/ SendRaw \/ FirstClose \/ LiveSubmit

\* A bridge of either generation with all its threads, where the consumer
\* and the keep-alive thread are each scheduled as long as they can take a
\* step.
ThreadFairSpec ==
    /\ Init /\ [][RetryNext]_vars
    /\ \A t \in {"consumer", "keepalive"} : WF_vars(ThreadStep(t))


\* ================================================================= claims

\* C1: socket sends of one bridge are mutually exclusive: at most one thread
\* (consumer, keep-alive loop, handshake) is inside socket.send at a time.
\* The keep-alive loop calls _send_raw at line 287 without the bridge lock.
C1_SendsMutuallyExclusive == Cardinality(sending) <= 1

\* C2: the consumer transmits commands in the order Bridge.send enqueued them
\* (tickets are given in enqueue order), and all frames of one command go out
\* before any frame of the next.
C2_FifoWholeCommands ==
    /\ \A i, j \in 1..Len(wire) : i < j => wire[i].ticket <= wire[j].ticket
    /\ \A i \in 1..Len(wire) : cmsg # Sentinel => wire[i].ticket <= cmsg.ticket
    /\ \A i \in 1..Len(wire), k \in 1..Len(command_queue) :
           command_queue[k] # Sentinel => wire[i].ticket < command_queue[k].ticket

\* Frames of two commands, the first of them repeated, are on the wire.
C2_Witness ==
    \E i, j, k \in 1..Len(wire) :
        /\ i < j /\ j < k
        /\ wire[i].ticket = wire[j].ticket
        /\ wire[j].ticket # wire[k].ticket
        /\ wire[j].group # wire[k].group

\* The command of frame f needed selection when the consumer took it: it is
\* flagged and the cached selected zone differed from its zone.
NeededSelection(f) == f.select /\ f.cached # f.group

\* C3: a selection frame is transmitted only for a flagged command whose zone
\* differs from the cached selected zone, as the first frame of that command;
\* the primary frames of such a command follow its selection frame directly.
C3_SelectionFrameWhenZoneDiffers ==
    \A i \in 1..Len(wire) :
        /\ wire[i].kind = "select" =>
               /\ NeededSelection(wire[i])
               /\ (i = 1 \/ wire[i - 1].ticket # wire[i].ticket)
        /\ (wire[i].kind = "primary" /\ NeededSelection(wire[i])) =>
               /\ i > 1
               /\ wire[i - 1].ticket = wire[i].ticket

\* A command got its selection frame, and a later flagged command for the
\* zone already selected went out without one.
C3_Witness ==
    \E i, j \in 1..Len(wire) :
        /\ i < j
        /\ wire[i].kind = "select"
        /\ wire[j].kind = "primary" /\ wire[j].select
        /\ wire[j].cached = wire[j].group
        /\ wire[j].ticket # wire[i].ticket

\* C8: once close() has returned, is_closed stays True and is_ready stays
\* False. The consumer's line 225 and the handshake's line 255 set is_ready
\* to True after close().
C8_ClosedIsTerminal == nCloses >= 1 => (is_closed /\ ~is_ready)

\* C10: close() never waits (each of its statements can run whoever holds the
\* bridge lock), and no statement of a second close() changes the sequence
\* byte or the selected zone, clears is_closed or sets is_ready.
C10_CloseIdempotentNonBlocking ==
    /\ [](xpc # "x_idle" => ENABLED Close)
    /\ [][(xpc' # xpc /\ nCloses >= 1) =>
            /\ is_closed /\ is_closed'
            /\ (is_ready' => is_ready)
            /\ (xpc = "x_ready" => ~is_ready')
            /\ sn' = sn
            /\ selected' = selected]_vars

\* A second close() is between its statements while the consumer holds the
\* lock inside socket.send.
C10_Witness ==
    /\ nCloses = 1 /\ xpc = "x_put"
    /\ lock = "consumer" /\ sub["consumer"] = "insend"


ConsumerExited == pc["consumer"] \in {"c_done", "c_dead"}
KeepAliveExited == version >= 6 => pc["keepalive"] = "k_done"

\* C9: after close() is called the consumer thread eventually ends (it
\* leaves its loop, or get_bytes raises in it), and on a generation-6 bridge
\* the keep-alive thread eventually leaves its loop.
C9_CloseEndsLoops == is_closed ~> (ConsumerExited /\ KeepAliveExited)

\* On a generation-6 bridge that was sent commands, close() has returned and
\* both loops have ended, the consumer by leaving its loop.
C9_Witness ==
    /\ version >= 6 /\ nCloses >= 1 /\ nextTicket > 1
    /\ pc["consumer"] = "c_done" /\ pc["keepalive"] = "k_done"

\* ------------------------------------------------------- pipeline claims
\* Stage executions of the current run made by Pipeline.run itself.
TopLevel == SelectSeq(elog, LAMBDA e : e.depth = 0)
\* How often stage j has been executed in the current run.
Count(j) == Cardinality({i \in 1..Len(elog) : elog[i].index = j})
\* The current run has ended and stop() was not called before or during it.
RunCompleted == wpc = "w_decr" /\ cancelled = "no"

\* C4: Pipeline.run executes the stages in list order, one at a time (a
\* stage begins only from the test of the flag, with the flag not set), and
\* once the flag is set for a run no further stage of that run begins.
C4_StagesInOrderUnlessCancelled ==
    /\ [](\A m \in 1..Len(TopLevel) : TopLevel[m].index = m)
    /\ [][elog' # elog /\ elog' # <<>> =>
            /\ wpc = "w_exec" /\ ~event /\ cancelled = "no"
            /\ elog' = Append(elog, [index |-> wcur, depth |-> Len(wstack)])]_vars

\* A run that was cancelled after its first stage has ended without
\* executing the remaining stages.
C4_Witness ==
    /\ wpc = "w_decr" /\ cancelled = "run"
    /\ Len(elog) >= 1 /\ Len(TopLevel) < Len(wpipe)

\* C5: the worker runs the pipelines in the order they were enqueued, and
\* takes the next one only when the pipeline it was running has gone through
\* all of its stages (executing them, or skipping them when cancelled).
C5_PipelinesFifoNoPreemption ==
    [][wrun' # wrun =>
         /\ wrun' = wrun + 1
         /\ wrun # 0 => (wtop > Len(wpipe) /\ wstack = <<>> /\ active = 0)
         /\ wrun # 0 => (cancelled # "no" \/ Len(TopLevel) = Len(wpipe))]_vars

\* The pipeline enqueued second is executing a stage.
C5_Witness == wrun = 2 /\ wpc = "w_exec" /\ Len(elog) >= 1 /\ ~event

\* C6: when stop() is called while the worker is inside a repeat without
\* iteration limit, no stage begins any more in that run, the run enqueues
\* nothing once the stage in progress is over, and the run ends.
C6_StopEndsInfiniteRepeat ==
    /\ [][cancelled = "forever" /\ cancelled' = "forever" =>
            /\ elog' = elog
            /\ wpc \notin {"g_set", "g_send", "f_loop"} =>
                  command_queue' = command_queue]_vars
    /\ (cancelled = "forever") ~> ~Running

\* The run that was stopped inside the repeat without limit has ended.
C6_Witness ==
    /\ cancelled = "forever" /\ wpc = "w_clear"
    /\ Len(elog) > Len(wpipe)

\* The repeat stages of the running pipeline, and the stages one replays.
IsRepeat(idx) == wpipe[idx].name = "repeat"
Replayed(idx) == (idx - wpipe[idx].stages)..(idx - 1)
\* No other repeat stage replays the stages of this one, or this one.
NotNested(idx) ==
    \A other \in 1..Len(wpipe) :
        (IsRepeat(other) /\ other # idx) =>
            Replayed(other) \cap (Replayed(idx) \cup {idx}) = {}
\* The claim applies to a repeat with iterations = n >= 1 and stages = k not
\* larger than the (zero-based) index of the repeat stage.
Applies(idx) ==
    /\ IsRepeat(idx) /\ ~wpipe[idx].forever
    /\ wpipe[idx].iterations >= 1
    /\ wpipe[idx].stages <= idx - 1
\* The commands the current run has put on the bridge's queue.
RunOps ==
    [i \in 1..(Len(command_queue) - qmark) |-> command_queue[qmark + i].op]

\* C7 as stated: in a completed run every applicable repeat stage has had
\* each of its k preceding stages executed exactly n times.
C7_EveryRepeatExecutesStagesNTimes ==
    RunCompleted =>
        \A idx \in 1..Len(wpipe) :
            Applies(idx) =>
                \A j \in Replayed(idx) : Count(j) = wpipe[idx].iterations

\* C7, amended: the count holds for a repeat stage that is not nested with
\* another repeat; the replays run the k stages in their original order;
\* [on, flash, repeat(3, 1)] executes flash 3 times and each flash enqueues
\* one off/on pair.
C7_RepeatExecutesStagesNTimes ==
    RunCompleted =>
        /\ \A idx \in 1..Len(wpipe) :
              (Applies(idx) /\ NotNested(idx)) =>
                 /\ \A j \in Replayed(idx) : Count(j) = wpipe[idx].iterations
                 /\ \A i \in 1..(Len(elog) - 1) :
                       (elog[i].depth = 1 /\ elog[i + 1].depth = 1
                          /\ elog[i].index \in Replayed(idx)
                          /\ elog[i + 1].index \in Replayed(idx)) =>
                         elog[i + 1].index =
                            IF elog[i].index = idx - 1
                              THEN idx - wpipe[idx].stages
                              ELSE elog[i].index + 1
        /\ wpipe = <<St("on"), St("flash"), Repeat(3, 1)>> =>
              /\ [i \in 1..Len(elog) |-> elog[i].index] = <<1, 2, 3, 2, 2>>
              /\ RunOps = <<"on", "off", "on", "off", "on", "off", "on">>

\* [on, flash, repeat(3, 1)] has run to its end with flash executed 3 times.
C7_Witness ==
    /\ RunCompleted
    /\ wpipe = <<St("on"), St("flash"), Repeat(3, 1)>>
    /\ Count(2) = 3

\* ------------------------------------------------- close and recovery claims
\* C11: once a call of close() has returned, no thread of the bridge begins
\* another socket send. close() never closes the socket, and a thread that
\* has passed its test of is_closed goes on to send.
C11_NoSendAfterClose ==
    [][nCloses >= 1 => sending' \subseteq sending]_vars

\* C12: on a generation-6 bridge is_ready goes from False to True only in
\* _init_connection, when the initialization frame has been sent and a
\* response has been received. Line 251 discards the result of _send_raw, so
\* a handshake whose frame was not sent still sets is_ready when recv_into
\* returns.
C12_ReadyOnlyBySuccessfulHandshake ==
    [][(version >= 6 /\ ~is_ready /\ is_ready') =>
          /\ \E t \in Handshakers : pc[t] = "i_recv" /\ pc'[t] = "i_ret"
          /\ isent]_vars

\* The constructor has returned and the generation-6 bridge is neither ready
\* nor closed.
Degraded == version >= 6 /\ pc["main"] = "m_done" /\ ~is_ready /\ ~is_closed

PingStarts ==
    /\ "keepalive" \notin sending /\ "keepalive" \in sending'
    /\ pc'["keepalive"] = "k_send"

C15_MismatchMarksNotReady ==
    [][response = "mismatch" => ~PingStarts]_vars

\* C16: below generation 6 the bridge becomes ready again only by the
\* consumer's own step after its delay (lines 224-225), so the consumer of an
\* open bridge never takes a command while the bridge is not ready; on
\* generation 6 no step of the consumer makes the bridge ready, the consumer
\* never enters the delay, goes from the end of a command straight back to
\* the loop test, and stops only on a closed bridge.
C16_RecoveryAfterSendFailure ==
    /\ [][(version < 6 /\ ~is_ready /\ is_ready')
            => (pc["consumer"] = "c_sleep" /\ pc'["consumer"] = "c_loop")]_vars
    /\ []((version < 6 /\ pc["consumer"] \in {"c_loop", "c_get"} /\ ~is_closed)
            => is_ready)
    /\ [][(version >= 6 /\ ~is_ready /\ is_ready')
            => pc'["consumer"] = pc["consumer"]]_vars
    /\ [](version >= 6 => pc["consumer"] # "c_sleep")
    /\ [][(version >= 6 /\ pc["consumer"] = "c_post")
            => pc'["consumer"] \in {"c_post", "c_loop"}]_vars
    /\ [](pc["consumer"] \in {"c_done", "c_dead"} => is_closed)

\* A failed send has marked a legacy bridge not ready; the consumer is in its
\* delay and the next command is waiting in the queue.
C16_Witness ==
    /\ version < 6 /\ pc["consumer"] = "c_sleep"
    /\ ~is_ready /\ ~is_closed
    /\ command_queue # <<>> /\ Head(command_queue) # Sentinel

\* The consumer calls socket.send for a frame of the command it holds.
ConsumerStartsFrame == "consumer" \notin sending /\ "consumer" \in sending'

\* socket.send raised for a frame of the command the consumer holds.
ConsumerFrameFailed ==
    /\ pc["consumer"] \in {"c_sel_send", "c_send"}
    /\ sub["consumer"] = "insend" /\ sub'["consumer"] = "idle"

\* The consumer has found the bridge not ready at line 198, or a frame of the
\* command it holds has failed.
FoundNotReady ==
    \/ pc["consumer"] = "c_lock" /\ pc'["consumer"] # "c_lock" /\ ~is_ready
    \/ ConsumerFrameFailed

\* Every command enters the queue once, with a new order number, and leaves
\* it once, from the head, into the hands of the consumer; every frame on the
\* wire belongs to the command the consumer holds at that moment.
DequeuedOnce ==
    /\ [][command_queue' # command_queue =>
            \/ /\ command_queue # <<>>
               /\ command_queue' = Tail(command_queue)
               /\ pc["consumer"] = "c_get"
               /\ Head(command_queue) # Sentinel => cmsg' = Head(command_queue)
            \/ \E m \in {Sentinel} \cup
                         {Msg(nextTicket, c.group, c.op, c.reps) : c \in Commands} :
                 /\ command_queue' = Append(command_queue, m)
                 /\ m # Sentinel => nextTicket' = nextTicket + 1]_vars
    /\ [][nextTicket' >= nextTicket]_vars
    /\ [][(cmsg' # cmsg /\ cmsg' # Sentinel) =>
            (cmsg = Sentinel /\ command_queue' # command_queue)]_vars
    /\ [][wire' # wire =>
            /\ cmsg # Sentinel /\ cmsg' = cmsg
            /\ \E f \in {Frame(pc["consumer"])} :
                 wire' = Append(wire, f) /\ f.ticket = cmsg.ticket]_vars

\* Once the consumer has found the bridge not ready for the command it
\* holds, the bridge stays not ready until the consumer has let go of the
\* command, and the consumer starts no frame meanwhile.
DroppedForGood ==
    /\ [][FoundNotReady => ~is_ready']_vars
    /\ [][(pc["consumer"] = "c_lock" /\ pc'["consumer"] # "c_lock" /\ ~is_ready)
            => cmsg' = Sentinel]_vars
    /\ [][(lock = "consumer" /\ ~is_ready /\ cmsg' = cmsg) => ~is_ready']_vars
    /\ [][(pc["consumer"] \in {"c_lock", "c_rep"}
              /\ pc'["consumer"] \in {"c_sel_bytes", "c_bytes"}) => is_ready]_vars
    /\ [][ConsumerStartsFrame =>
            (lock = "consumer" /\ (is_ready \/ is_closed))]_vars

\* C17 as stated: no command is retried, and a command dequeued while the
\* bridge was not ready is never transmitted. The readiness test is at line
\* 198, under the lock, not at the dequeue of line 188: the keep-alive
\* thread's handshake can succeed in between, and the command is then sent.
C17_DequeuedNotReadyNeverSent ==
    /\ DequeuedOnce
    /\ DroppedForGood
    /\ [][ConsumerStartsFrame => cready]_vars

\* C17: every command is queued once and dequeued once; a command the
\* consumer finds not ready at the test of line 198, or one of whose frames
\* failed to send, gets no frame on the wire from then on.
C17_NoCommandRetried == DequeuedOnce /\ DroppedForGood

\* A frame of the first command failed, the command was given up, the bridge
\* is ready again and the consumer is transmitting a later command.
C17_Witness ==
    /\ cmsg # Sentinel /\ cmsg.ticket >= 2
    /\ "consumer" \in sending /\ is_ready /\ ~is_closed
    /\ \A i \in 1..Len(wire) : wire[i].ticket >= 2

\* ------------------------------------------------------- property setters
\* The properties a group class defines: DimmerGroup brightness; WhiteGroup
\* brightness and temperature; RgbwGroup brightness and hue; RgbwwGroup
\* all four.
HasProperty(type, p) ==
    CASE type = DIMMER -> p = "brightness"
      [] type = WHITE -> p \in {"brightness", "temperature"}
      [] type = RGBW -> p \in {"brightness", "hue"}
      [] type = RGBWW -> p \in Properties

\* The setters of RgbwGroup and RgbwwGroup begin with a range test; those of
\* DimmerGroup and WhiteGroup begin with try: cmd = self.command_set.<p>(v).
Validates(type) == type \in {RGBW, RGBWW}

\* Whether the command set of the group has a method of the property's
\* name: CommandSetDimmerV6.brightness exists, the white command sets have
\* neither brightness nor temperature (AttributeError).
HasCommand(type, p) == type = DIMMER /\ p = "brightness"

\* The range test of the setters: if value < 0 or value > 1.
InRange(v) == ~(v < 0 \/ v > One)

\* util.steps: int(abs((current * max_steps) - (target * max_steps)))
Abs(x) == IF x < 0 THEN 0 - x ELSE x
Steps(current, target, max_steps) ==
    Abs(current * max_steps - target * max_steps) \div One

\* CommandSet.brightness_steps / temperature_steps of the white command set
\* of the bridge version.
MaxSteps(p) ==
    IF version < 6
      THEN (IF p = "brightness" THEN BRIGHTNESS_STEPS ELSE TEMPERATURE_STEPS)
      ELSE (IF p = "brightness" THEN MAX_BRIGHTNESS + 1 ELSE MAX_TEMPERATURE + 1)

\* Group.send: self._bridge.send(cmd, wait=self.wait, reps=self.reps)
Enqueued(op, r) ==
    /\ command_queue' = Append(command_queue, Msg(nextTicket, WorkerGroup, op, r))
    /\ nextTicket' = nextTicket + 1
    /\ dsent' = dsent + 1

deviceRest == <<pqueue, event, wpc, wpipe, wrun, wtop, wcur, wstack, wflash, wop,
                nextPipe, cancelled, elog, qmark, led_type, nCalls>>
bridgeIdle == <<xvars, version, response, isent, is_ready, is_closed, sn, selected, lock,
                active, pc, cmsg, crep, ccached, cready, cfail, awaiting, threadLocals,
                closerVars, nSent, sending, wire>>

\* A device thread assigns v to property p of the group.
SetterCall(p, v) ==
    /\ dpc = "d_idle"
    /\ pc["main"] = "m_done"
    /\ nCalls < MaxCalls
    /\ HasProperty(led_type, p)
    /\ dprop' = p
    /\ dval' = v
    /\ dsent' = 0
    /\ dleft' = 0
    /\ draised' = FALSE
    /\ nCalls' = nCalls + 1
    /\ dpc' = IF Validates(led_type) THEN "d_check" ELSE "d_try"
    /\ UNCHANGED <<bridgeIdle, command_queue, nextTicket, pqueue, event, on, wpc,
                   wpipe, wrun, wtop, wcur, wstack, wflash, wop, nextPipe,
                   cancelled, elog, qmark, led_type, attrs>>

\* rgbw.py lines 78-80, 97-99; rgbww.py lines 76-78, 95-97, 114-116,
\* 140-142: if value < 0 or value > 1: raise ValueError
SetterCheck ==
    /\ dpc = "d_check"
    /\ IF InRange(dval)
         THEN dpc' = "d_store" /\ UNCHANGED draised
         ELSE dpc' = "d_idle" /\ draised' = TRUE
    /\ UNCHANGED <<bridgeIdle, command_queue, nextTicket, deviceRest, on, attrs,
                   dprop, dval, dleft, dsent>>

\* rgbw.py lines 81, 100: self._brightness = brightness, self._hue = hue
SetterStore ==
    /\ dpc = "d_store"
    /\ attrs' = [attrs EXCEPT ![dprop] = dval]
    /\ dpc' = "d_send"
    /\ UNCHANGED <<bridgeIdle, command_queue, nextTicket, deviceRest, on,
                   dprop, dval, dleft, dsent, draised>>

\* dimmer.py line 41, white.py lines 47 and 70: the command set builds the
\* command (converting the value without a range test), or has no such
\* method and the except clause calls _setter.
SetterTry ==
    /\ dpc = "d_try"
    /\ dpc' = IF HasCommand(led_type, dprop) THEN "d_send" ELSE "d_setter"
    /\ UNCHANGED <<bridgeIdle, command_queue, nextTicket, deviceRest, on, attrs,
                   dprop, dval, dleft, dsent, draised>>

\* The command a setter sends: RgbwwGroup.saturation sends white() for
\* saturation 0 (rgbww.py lines 119-120).
SetterOp ==
    IF led_type = RGBWW /\ dprop = "saturation" /\ dval = 0 THEN "white" ELSE dprop

\* rgbw.py lines 82-83 and dimmer.py line 42: self.send(cmd). The setters
\* that validate have stored the value already; DimmerGroup stores it next.
SetterSend ==
    /\ dpc = "d_send"
    /\ Enqueued(SetterOp, REPS)
    /\ dpc' = IF Validates(led_type) THEN "d_idle" ELSE "d_store_after"
    /\ UNCHANGED <<bridgeIdle, deviceRest, on, attrs, dprop, dval, dleft, draised>>

\* white.py lines 150-157 (dimmer.py lines 106-113): _setter tests the
\* range, then calls bottom, top or to_step, each of which sends
\* steps(current, value, max_steps) single-step commands.
SetterRange ==
    /\ dpc = "d_setter"
    /\ IF InRange(dval)
         THEN /\ dpc' = "d_step"
              /\ dleft' = Steps(attrs[dprop], dval, MaxSteps(dprop))
              /\ UNCHANGED draised
         ELSE /\ dpc' = "d_idle"
              /\ draised' = TRUE
              /\ UNCHANGED dleft
    /\ UNCHANGED <<bridgeIdle, command_queue, nextTicket, deviceRest, on, attrs,
                   dprop, dval, dsent>>

\* The single-step command: step_down when current - target > 0, else
\* step_up (white.py lines 187-191).
StepOp ==
    IF attrs[dprop] - dval > 0
      THEN (IF dprop = "brightness" THEN "dimmer" ELSE "warmer")
      ELSE (IF dprop = "brightness" THEN "brighter" ELSE "cooler")

\* @rate(reps=2) on _brightest, _dimmest, _warmest, _coolest; @rate(reps=1)
\* on _to_value.
StepReps == IF dval \in {0, One} THEN 2 ELSE 1

\* One iteration of the loop over range(steps(...)); when the loop is over
\* _setter goes on to setattr.
SetterStep ==
    /\ dpc = "d_step"
    /\ IF dleft > 0
         THEN /\ Enqueued(StepOp, StepReps)
              /\ dleft' = dleft - 1
              /\ UNCHANGED dpc
         ELSE /\ dpc' = "d_store_after"
              /\ UNCHANGED <<command_queue, nextTicket, dleft, dsent>>
    /\ UNCHANGED <<bridgeIdle, deviceRest, on, attrs, dprop, dval, draised>>

\* dimmer.py line 43, white.py lines 49 and 72, and setattr at white.py
\* line 158: the cached value is stored after the commands were sent.
SetterStoreAfter ==
    /\ dpc = "d_store_after"
    /\ attrs' = [attrs EXCEPT ![dprop] = dval]
    /\ dpc' = "d_idle"
    /\ UNCHANGED <<bridgeIdle, command_queue, nextTicket, deviceRest, on,
                   dprop, dval, dleft, dsent, draised>>

\* A device thread assigns state to Group.on.
OnCall(state) ==
    /\ dpc = "d_idle"
    /\ pc["main"] = "m_done"
    /\ nCalls < MaxCalls
    /\ dprop' = "on"
    /\ dval' = state
    /\ dsent' = 0
    /\ dleft' = 0
    /\ draised' = FALSE
    /\ nCalls' = nCalls + 1
    /\ dpc' = "d_on"
    /\ UNCHANGED <<bridgeIdle, command_queue, nextTicket, pqueue, event, on, wpc,
                   wpipe, wrun, wtop, wcur, wstack, wflash, wop, nextPipe,
                   cancelled, elog, qmark, led_type, attrs>>

\* group/__init__.py line 82: self._on = state
OnStore ==
    /\ dpc = "d_on"
    /\ on' = dval
    /\ dpc' = "d_on_send"
    /\ UNCHANGED <<bridgeIdle, command_queue, nextTicket, deviceRest, attrs,
                   dprop, dval, dleft, dsent, draised>>

\* group/__init__.py lines 83-86: cmd = off(), or on() if state; send(cmd)
OnSend ==
    /\ dpc = "d_on_send"
    /\ Enqueued(IF dval THEN "on" ELSE "off", REPS)
    /\ dpc' = "d_idle"
    /\ UNCHANGED <<bridgeIdle, deviceRest, on, attrs, dprop, dval, dleft, draised>>

Setter ==
    \/ \E p \in Properties, v \in Values : SetterCall(p, v)
    \/ SetterCheck \/ SetterStore \/ SetterTry \/ SetterSend
    \/ SetterRange \/ SetterStep \/ SetterStoreAfter
    \/ (\E state \in BOOLEAN : OnCall(state))
    \/ OnStore \/ OnSend

\* A group of any led type the bridge version has a command set for.
SetterInit ==
    /\ BridgeInit /\ PipeInit /\ GroupInit(LedTypes) /\ RestInit
    /\ Supported(version, led_type)

\* The constructor of the bridge, then a device thread setting properties of
\* a group of the bridge.
SetterNext == Handshake \/ SendRaw \/ Setter

SetterSpec == SetterInit /\ [][SetterNext]_vars

\* ------------------------------------------------------------ setter claims
\* A setter call for a numeric property with a value outside [0, 1] is in
\* progress.
OutOfRangeCall == dpc # "d_idle" /\ dprop \in Properties /\ ~InRange(dval)

\* C19: for every group class, a setter given a value outside [0, 1] changes
\* no cached value, submits no command and ends by raising ValueError.
\* DimmerGroup.brightness has no range test: CommandSetDimmerV6.brightness
\* converts any value, the command is sent and the value is cached.
C19_OutOfRangeRejected ==
    [][OutOfRangeCall =>
          /\ attrs' = attrs
          /\ command_queue' = command_queue
          /\ (dpc' = "d_idle" => draised')]_vars

\* C20: a setter changes the cached value only after it has submitted the
\* command. Group.on (line 82) and the setters of RgbwGroup and RgbwwGroup
\* store the value first and send afterwards.
C20_CachedAfterSubmit ==
    [][(attrs' # attrs \/ on' # on) => dsent >= 1]_vars

\* ------------------------------------------------------- socket failures
\* socket.send raised in thread t.
SendFailed(t) == sub[t] = "insend" /\ sub'[t] = "idle"

\* recv_into raised in the handshake of thread t (line 256).
InitRecvFailed(t) == pc[t] = "i_recv" /\ pc'[t] = "i_ret" /\ ~is_ready'

\* select or recv_into raised in the keep-alive loop (line 300).
PingRecvFailed == pc["keepalive"] = "k_select" /\ response' = "error"

\* The positions of a thread that has ended.
Ended == {"c_done", "c_dead", "k_done"}

\* What a socket failure leaves alone: all of the bridge's data but
\* is_ready.
failureKeeps == <<is_closed, command_queue, selected, sn, wire, nextTicket>>

\* C18: a failed socket.send or recv_into ends no thread: the thread goes on
\* at the statement after the call, the bridge's data are unchanged except
\* that is_ready may become False (never True); the consumer and the
\* keep-alive thread end only on a closed bridge; Bridge.send touches no
\* socket.
C18_SocketFailureContained ==
    /\ [][\A t \in Threads : SendFailed(t) =>
             /\ pc'[t] = AfterSend(pc[t])
             /\ (is_ready' => is_ready)
             /\ UNCHANGED failureKeeps]_vars
    /\ [][\A t \in Handshakers : InitRecvFailed(t) =>
             /\ lock' = NoThread
             /\ UNCHANGED failureKeeps]_vars
    /\ [][PingRecvFailed =>
             /\ pc'["keepalive"] = "k_lock"
             /\ UNCHANGED <<is_ready, failureKeeps>>]_vars
    /\ [][\A t \in Threads : (pc'[t] \in Ended /\ pc[t] \notin Ended)
             => is_closed]_vars
    /\ [][nextTicket' # nextTicket =>
             UNCHANGED <<sending, nSent, is_ready, pc>>]_vars

\* A frame of a command failed to send on an open generation-6 bridge: the
\* bridge is not ready, the consumer is on its way back to the queue and the
\* keep-alive thread has entered _reconnect.
C18_Witness ==
    /\ version >= 6 /\ ~is_closed /\ ~is_ready
    /\ pc["consumer"] = "c_post" /\ pc["keepalive"] = "r_loop"
    /\ nSent >= 1 /\ nextTicket >= 2 /\ wire = <<>>

\* ---------------------------------------------- add_group / group_factory
\* bound on the calls of add_group
MaxGroups == 2

\* The led types group_factory is called with: those of the group classes
\* in the source and one it does not know.
FactoryTypes == LedTypes \cup {BRIDGE_LED, "bad"}

\* group_factory, lines 44-55: the class chosen for a led type; any other
\* led type raises ValueError.
GroupClass(type) ==
    CASE type \in {RGBW, BRIDGE_LED} -> "RgbwGroup"
      [] type = RGBWW -> "RgbwwGroup"
      [] type = WHITE -> "WhiteGroup"
      [] type = DIMMER -> "DimmerGroup"
      [] OTHER -> "ValueError"

\* command_set_factory: a command set exists whose SUPPORTED_VERSIONS holds
\* the bridge version and whose SUPPORTED_LED_TYPES holds the led type.
HasCommandSet(v, type) ==
    \/ type \in LedTypes /\ Supported(v, type)
    \/ type = BRIDGE_LED /\ v >= 6

bridgeAll == <<bvars, pvars, svars, cvars>>

\* bridge.py line 155: add_group calls group_factory.
AddGroupCall(number, type) ==
    /\ apc = "a_idle"
    /\ pc["main"] = "m_done"
    /\ Len(groups) < MaxGroups
    /\ apc' = "a_factory"
    /\ atype' = type
    /\ anumber' = number
    /\ araised' = FALSE
    /\ UNCHANGED <<bridgeAll, groups, nWorkers>>

\* Where group_factory goes once it has chosen the class: the constructor
\* of Group first asks command_set_factory for the command set (line 57).
StartsWorkerAtOnce == "a_start"
AfterClassChosen == "a_cmdset"

\* group_factory lines 44-55
GroupFactory ==
    /\ apc = "a_factory"
    /\ IF GroupClass(atype) = "ValueError"
         THEN apc' = "a_idle" /\ araised' = TRUE
         ELSE apc' = AfterClassChosen /\ UNCHANGED araised
    /\ UNCHANGED <<bridgeAll, groups, nWorkers, atype, anumber>>

\* group/__init__.py line 57: command_set_factory returns the command set
\* or raises ValueError (commands/__init__.py lines 24-31).
GroupCommandSet ==
    /\ apc = "a_cmdset"
    /\ IF HasCommandSet(version, atype)
         THEN apc' = "a_start" /\ UNCHANGED araised
         ELSE apc' = "a_idle" /\ araised' = TRUE
    /\ UNCHANGED <<bridgeAll, groups, nWorkers, atype, anumber>>

\* group/__init__.py lines 60-64: the PipelineQueue thread is started.
GroupStart ==
    /\ apc = "a_start"
    /\ nWorkers' = nWorkers + 1
    /\ apc' = "a_append"
    /\ UNCHANGED <<bridgeAll, groups, atype, anumber, araised>>

\* bridge.py lines 156-157: self.groups.append(group); return group
GroupAppend ==
    /\ apc = "a_append"
    /\ groups' = Append(groups, [number |-> anumber, led_type |-> atype,
                                  class |-> GroupClass(atype)])
    /\ apc' = "a_idle"
    /\ UNCHANGED <<bridgeAll, nWorkers, atype, anumber, araised>>

AddGroup ==
    \/ \E number \in Groups, type \in FactoryTypes : AddGroupCall(number, type)
    \/ GroupFactory \/ GroupCommandSet \/ GroupStart \/ GroupAppend

\* The constructor of the bridge, then calls of add_group.
FactoryNext == Handshake \/ SendRaw \/ AddGroup

FactorySpec == Init /\ [][FactoryNext]_vars

\* The (generation, led type) pairs of the command sets in the source, by
\* class: CommandSetWhiteLegacy, CommandSetRgbwLegacy, and the V6 sets for
\* the bridge led, white, dimmer, rgbw and rgbww.
CommandSetPairs ==
    ({LEGACY_VERSION} \X {WHITE, RGBW})
      \cup ({BRIDGE_VERSION} \X {BRIDGE_LED, WHITE, DIMMER, RGBW, RGBWW})

StageBrightness ==
    /\ wpc = "w_bright"
    /\ dpc = "d_idle"
    /\ dprop' = "brightness"
    /\ dval' = wpipe[wcur].arg
    /\ dsent' = 0
    /\ dleft' = 0
    /\ draised' = FALSE
    /\ dpc' = IF Validates(led_type) THEN "d_check" ELSE "d_try"
    /\ wpc' = "w_setter"
    /\ UNCHANGED <<bridgeIdle, command_queue, nextTicket, pqueue, event, on,
                   workerCode, nextPipe, cancelled, elog, qmark, led_type, attrs,
                   nCalls>>

\* Where the worker goes when the setter has raised: nothing between the
\* setter and PipelineQueue.run (line 32) catches the exception.
CaughtInStage == "w_ret"
AfterSetterRaised == "w_dead"

\* The setter returns to _execute_stage, or raises.
SetterReturn ==
    /\ wpc = "w_setter"
    /\ dpc = "d_idle"
    /\ wpc' = IF draised THEN AfterSetterRaised ELSE "w_ret"
    /\ UNCHANGED <<bridgeIdle, command_queue, nextTicket, pqueue, event, on,
                   workerCode, nextPipe, cancelled, elog, qmark, svars>>

\* The pipelines a caller enqueues on a group: a brightness stage with any
\* value, followed by another stage; a callback; a flash that is repeated.
StagePipelines ==
    { <<Brightness(v), St("on")>> : v \in Values }
    \cup { <<St("callback"), St("off")>>,
           <<St("on"), St("flash"), Repeat(2, 1)>> }

StageNext ==
    \/ Worker \/ StageBrightness \/ SetterReturn
    \/ SetterCheck \/ SetterStore \/ SetterTry \/ SetterSend
    \/ SetterRange \/ SetterStep \/ SetterStoreAfter
    \/ (\E p \in StagePipelines : Enqueue(p))
    \/ Stop

\* A group of any led type on a constructed bridge, with its worker.
StageInit == SetterInit /\ pc["main"] = "m_done"

StageSpec == StageInit /\ [][StageNext]_vars

\* C22: the worker thread ends only in a callback stage. A brightness stage
\* whose value the setter rejects ends it as well: the ValueError of the
\* setter is caught nowhere.
C22_OnlyCallbackEndsWorker ==
    [][(wpc' = "w_dead" /\ wpc # "w_dead") => wpipe[wcur].name = "callback"]_vars

\* C23: the sequence byte counts the successful sends: whenever no thread
\* is between socket.send and the store of line 234, it equals the initial
\* value plus the number of successful sends, modulo 256.
C23_SequenceCountsSends ==
    (\A t \in Threads : sub[t] # "store")
        => sn = (STARTING_SEQUENTIAL_BYTE + nSent) % 256

\* ------------------------------------------------- functions of the library
\* Largest Bridge.active, transition duration (in units of wait * reps of
\* _transition, 0.025 s) and ideal step count of a property.
MaxActive == 2
MaxDuration == 3
MaxIdeal == 2

AllVersions == 1..BRIDGE_VERSION
\* Values the sequence byte takes as frames are sent.
SeqBytes == {0, STARTING_SEQUENTIAL_BYTE, 254, 255}
\* Session ids read from bytes 19 and 20 of the handshake response.
SessionBytes == {0, 171}
Zones == 0..4

\* A constructed bridge of any generation, ready, that has sent frames and
\* has pipelines running on some of its groups; every thread is between
\* two steps.
ReadyBridge(versions, bytes, actives) ==
    /\ version \in versions
    /\ is_ready = TRUE
    /\ is_closed = FALSE
    /\ sn \in bytes
    /\ selected = NoGroup
    /\ lock = NoThread
    /\ active \in actives
    /\ command_queue = <<>>
    /\ pc = [t \in Threads |->
               IF t = "consumer" THEN "c_loop"
               ELSE IF t = "main" THEN "m_done"
               ELSE "k_off"]
    /\ sub = [t \in Threads |-> "idle"]
    /\ tmp = [t \in Threads |-> 0]
    /\ cmsg = Sentinel
    /\ crep = 0
    /\ ccached = NoGroup
    /\ cready = FALSE
    /\ cfail = FALSE
    /\ awaiting = TRUE
    /\ response = "none"
    /\ xpc = "x_idle"
    /\ nCloses = 0
    /\ nextTicket = 1
    /\ nSent = 0
    /\ sending = {}
    /\ isent = FALSE
    /\ wire = <<>>

CalcInit ==
    /\ ReadyBridge(AllVersions, SeqBytes, 0..MaxActive)
    /\ PipeInit /\ GroupInit({WHITE}) /\ RestInit

\* One call is followed from its arguments to its result.
NotCalled == calc.fn = "none"

RECURSIVE SumSeq(_)
SumSeq(q) == IF q = <<>> THEN 0 ELSE Head(q) + SumSeq(Tail(q))

\* v6.py line 51: checksum = sum(cmd + zone_selector) & 0xFF
SumUnmasked(body) == SumSeq(body)
Checksum(body) == SumSeq(body) % 256

\* CommandV6.get_bytes, lines 42-53, for a ready bridge.
GetBytesV6(wb1, wb2, remote_style, cmd_1, cmd_2, group_number) ==
    LET preamble == <<128, 0, 0, 0, 17, wb1, wb2, 0, sn, 0>>
        cmd == <<49, 0, 0, remote_style, cmd_1, cmd_2, cmd_2, cmd_2, cmd_2>>
        zone_selector == <<group_number, 0>>
    IN preamble \o cmd \o zone_selector \o <<Checksum(cmd \o zone_selector)>>

\* REMOTE_STYLE of the v6 command sets and the command bytes they build.
RemoteStyles == {0, 1, 7, 8}
Cmd1Bytes == {1, 3}
Cmd2Bytes == {0, 100, 255}

\* The consumer encodes a v6 command (bridge.py lines 203 and 213).
EncodeV6 ==
    /\ NotCalled
    /\ version >= 6
    /\ ~GetBytesRaises
    /\ \E wb1 \in SessionBytes, wb2 \in SessionBytes, rs \in RemoteStyles,
          c1 \in Cmd1Bytes, c2 \in Cmd2Bytes, z \in Zones :
          calc' = [fn |-> "v6", args |-> <<wb1, wb2, rs, c1, c2, z>>,
                   out |-> GetBytesV6(wb1, wb2, rs, c1, c2, z),
                   raised |-> "none"]
    /\ UNCHANGED <<bvars, pvars, svars, fvars, color, ovars>>

\* cmd_2 is None
NoOperand == 0 - 1
SUFFIX_BYTE == 0
BRIDGE_SHORT_VERSION_MIN == 3
BRIDGE_LONG_BYTE == 85

\* legacy.py lines 39-40: the long form of the bridges before version 3.
LongAlways(v) == <<BRIDGE_LONG_BYTE>>
LongByte(v) == IF v < BRIDGE_SHORT_VERSION_MIN THEN <<BRIDGE_LONG_BYTE>> ELSE <<>>

\* CommandLegacy.get_bytes, lines 34-42.
GetBytesLegacy(cmd_1, cmd_2) ==
    (IF cmd_2 # NoOperand THEN <<cmd_1, cmd_2>> ELSE <<cmd_1, SUFFIX_BYTE>>)
        \o LongByte(version)

\* CommandSetWhiteLegacy.ON_BYTES
ON_BYTES == <<56, 61, 55, 50>>
LegacyCmd1 == {66, 78}
LegacyCmd2 == {NoOperand, 0, 27}

\* The consumer encodes a legacy command.
EncodeLegacy ==
    /\ NotCalled
    /\ version < 6
    /\ \E c1 \in LegacyCmd1, c2 \in LegacyCmd2 :
          calc' = [fn |-> "legacy", args |-> <<c1, c2>>,
                   out |-> GetBytesLegacy(c1, c2), raised |-> "none"]
    /\ UNCHANGED <<bvars, pvars, svars, fvars, color, ovars>>

\* CommandSetWhiteLegacy.on (lines 105-110) for group z, encoded:
\* _build_command(ON_BYTES[group_number - 1]) leaves cmd_2 None.
EncodeWhiteOn ==
    /\ NotCalled
    /\ version < 6
    /\ \E z \in 1..4 :
          calc' = [fn |-> "white_on", args |-> <<z>>,
                   out |-> GetBytesLegacy(ON_BYTES[(z - 1) + 1], NoOperand),
                   raised |-> "none"]
    /\ UNCHANGED <<bvars, pvars, svars, fvars, color, ovars>>

\* max_steps arguments: the step counts of the command sets.
StepCounts == {BRIGHTNESS_STEPS, MAX_BRIGHTNESS}

\* util.steps(current, target, max_steps): the function has one statement,
\* the return of line 63, and raises nothing for numbers.
CallSteps ==
    /\ NotCalled
    /\ \E current \in Values, target \in Values, n \in StepCounts :
          calc' = [fn |-> "steps", args |-> <<current, target, n>>,
                   out |-> <<Steps(current, target, n)>>, raised |-> "none"]
    /\ UNCHANGED <<bvars, pvars, svars, fvars, color, ovars>>

\* math.ceil(n / d) for integers n and d # 0.
CeilDiv(n, d) ==
    IF d > 0 THEN 0 - ((0 - n) \div d) ELSE 0 - (n \div (0 - d))

Max(a, b) == IF a >= b THEN a ELSE b

\* Group._wait (lines 127-137) returns 0: with wait * reps as the unit of
\* time, ((duration - commands) / steps) - active <= 0.
WaitIsZero(duration, total_steps, commands) ==
    duration - commands <= active * total_steps

\* Group._scale_steps (lines 139-153) as _transition calls it (rgbw.py lines
\* 163-168): the divisor is wait * reps * commands - wait * reps * active.
ScaleSteps(duration, commands, b_steps, h_steps) ==
    LET divisor == commands - active
    IN IF divisor = 0
         THEN [fn |-> "scale", args |-> <<duration, commands, b_steps, h_steps>>,
               out |-> <<>>, raised |-> "ZeroDivisionError"]
         ELSE [fn |-> "scale", args |-> <<duration, commands, b_steps, h_steps>>,
               out |-> <<CeilDiv(duration * b_steps, divisor),
                         CeilDiv(duration * h_steps, divisor)>>,
               raised |-> "none"]

\* _transition computes the ideal steps, finds the wait to be zero and
\* scales the steps.
CallScaleSteps ==
    /\ NotCalled
    /\ \E duration \in 1..MaxDuration, b_steps \in 0..MaxIdeal,
          h_steps \in 0..MaxIdeal :
          /\ WaitIsZero(duration, Max(Max(b_steps, h_steps), 1), b_steps + h_steps)
          /\ calc' = ScaleSteps(duration, b_steps + h_steps, b_steps, h_steps)
    /\ UNCHANGED <<bvars, pvars, svars, fvars, color, ovars>>

CalcNext ==
    EncodeV6 \/ EncodeLegacy \/ EncodeWhiteOn \/ CallSteps \/ CallScaleSteps

CalcSpec == CalcInit /\ [][CalcNext]_vars

\* C24: a v6 command encodes to 22 bytes: the preamble with the session ids
\* and the sequence byte of the bridge, the 9-byte body, the zone selector
\* and the sum of body and zone selector modulo 256; encoding changes no
\* bridge state.
C24_FrameV6 ==
    /\ [](calc.fn = "v6" =>
            /\ Len(calc.out) = 22
            /\ SubSeq(calc.out, 1, 10)
                 = <<128, 0, 0, 0, 17, calc.args[1], calc.args[2], 0, sn, 0>>
            /\ SubSeq(calc.out, 11, 13) = <<49, 0, 0>>
            /\ SubSeq(calc.out, 14, 15) = <<calc.args[3], calc.args[4]>>
            /\ \A i \in 16..19 : calc.out[i] = calc.args[5]
            /\ SubSeq(calc.out, 20, 21) = <<calc.args[6], 0>>
            /\ calc.out[22] \in 0..255
            /\ \E k \in 0..4 :
                 SumSeq(SubSeq(calc.out, 11, 21)) = calc.out[22] + 256 * k)
    /\ [][calc'.fn = "v6" => UNCHANGED bvars]_vars

C24_Witness ==
    /\ calc.fn = "v6"
    /\ calc.args = <<171, 171, 8, 3, 255, 4>>
    /\ sn = 255
    /\ calc.out[22] = 60

\* C25: a legacy command encodes to its opcode and operand (0 when it has
\* none), followed by 0x55 exactly on a bridge before version 3; white on
\* for zone z has the z-th on opcode, 0x38 for zone 1, and operand 0.
C25_FrameLegacy ==
    /\ calc.fn = "legacy" =>
         /\ calc.out[1] = calc.args[1]
         /\ calc.out[2] = (IF calc.args[2] = NoOperand THEN 0 ELSE calc.args[2])
         /\ Len(calc.out) = (IF version < 3 THEN 3 ELSE 2)
         /\ version < 3 => calc.out[3] = 85
    /\ calc.fn = "white_on" =>
         /\ calc.out[1] = ON_BYTES[calc.args[1]]
         /\ calc.out[2] = 0
         /\ calc.args[1] = 1 => calc.out[1] = 56
         /\ Len(calc.out) = (IF version < 3 THEN 3 ELSE 2)

C25_Witness ==
    /\ calc.fn = "white_on"
    /\ calc.args = <<1>>
    /\ version = 5
    /\ calc.out = <<56, 0>>

\* C27: steps raises ValueError when current or target is outside [0, 1].
C27_StepsRejectsOutOfRange ==
    (calc.fn = "steps" /\ (~InRange(calc.args[1]) \/ ~InRange(calc.args[2])))
        => calc.raised = "ValueError"

\* C30: when the wait is zero, scaling the steps does not fail, and every
\* property with ideal steps keeps at least one step and at most its ideal
\* number.
C30_ScaleStepsNeverFails ==
    calc.fn = "scale" =>
        /\ calc.raised = "none"
        /\ \A i \in 1..2 :
             calc.args[i + 2] > 0 =>
                 (calc.out[i] >= 1 /\ calc.out[i] <= calc.args[i + 2])

\* ----------------------------------------------------- transition wrappers
\* A target that is not given: brightness=None, temperature=None, color=None.
NoTarget == 0 - 1
NoColor == "None"
\* Colours a caller passes; grey has no saturation.
Colors == {RGB_WHITE, "red", "cyan", "grey"}
\* hue_of_color and saturation_of_color, imported from limitlessled.util by
\* rgbw.py: the hue and the saturation of the HSV form of the colour.
hue_of_color(c) == IF c = "cyan" THEN One \div 2 ELSE 0
saturation_of_color(c) == IF c \in {RGB_WHITE, "grey"} THEN 0 ELSE One
\* Targets inside [0, 1].
Targets == 0..One
TransitionTypes == {DIMMER, WHITE, RGBW}
HUE_STEPS == 255

\* A group of a ready bridge, with the property values earlier calls of its
\* setters have left; the hue setter leaves _color alone, so the hue need not
\* be the hue of the colour.
TransitionInit ==
    /\ ReadyBridge(Versions, {STARTING_SEQUENTIAL_BYTE}, {0})
    /\ PipeInit
    /\ led_type \in TransitionTypes
    /\ Supported(version, led_type)
    /\ attrs \in [Properties -> Targets]
    /\ attrs["saturation"] = 0
    /\ led_type # WHITE => attrs["temperature"] = One \div 2
    /\ led_type # RGBW => attrs["hue"] = 0
    /\ dpc = "d_idle" /\ dprop = "none" /\ dval = 0 /\ dleft = 0 /\ dsent = 0
    /\ draised = FALSE /\ nCalls = 0
    /\ GroupsInit
    /\ calc = NoCalc
    /\ OtherInit
    /\ color \in (IF led_type = RGBW THEN Colors \ {"grey"} ELSE {RGB_WHITE})

\* What transition does, in order: an immediate call of a setter or of
\* white(), or the call of _transition with the ideal step counts _transition
\* computes from the arguments (hue tells whether a hue was passed).
Did(call) == [call |-> call, b_steps |-> 0, x_steps |-> 0, hue |-> FALSE]
Interpolate(b, x, hue) ==
    [call |-> "_transition", b_steps |-> b, x_steps |-> x, hue |-> hue]

\* steps(self.<p>, target, max_steps) of _transition; 0 when the target is
\* None.
StepsAtLeastOne(cur, target, n) ==
    IF target = NoTarget THEN 0 ELSE Max(Steps(cur, target, n), 1)
IdealSteps(cur, target, n) == IF target = NoTarget THEN 0 ELSE Steps(cur, target, n)

Called(args, out) == [fn |-> "transition", args |-> args, out |-> out, raised |-> "none"]

TransitionArgs(duration, brightness, temperature, c) ==
    [duration |-> duration, brightness |-> brightness, temperature |-> temperature,
     color |-> c, was |-> attrs, wasColor |-> color]

\* DimmerGroup.transition, dimmer.py lines 50-63.
DimmerTransition(duration, brightness) ==
    /\ led_type = DIMMER
    /\ LET set == duration = 0 /\ brightness # NoTarget
           out == IF duration = 0
                    THEN (IF brightness # NoTarget THEN <<Did("brightness")>> ELSE <<>>)
                    ELSE IF brightness # attrs["brightness"]
                           THEN <<Interpolate(IdealSteps(attrs["brightness"], brightness,
                                                         MaxSteps("brightness")), 0, FALSE)>>
                           ELSE <<>>
       IN /\ calc' = Called(TransitionArgs(duration, brightness, NoTarget, NoColor), out)
          /\ attrs' = IF set THEN [attrs EXCEPT !["brightness"] = brightness] ELSE attrs
    /\ UNCHANGED color

\* WhiteGroup.transition, white.py lines 79-96.
WhiteTransition(duration, brightness, temperature) ==
    /\ led_type = WHITE
    /\ LET setB == duration = 0 /\ brightness # NoTarget
           setT == duration = 0 /\ temperature # NoTarget
           out == IF duration = 0
                    THEN (IF setB THEN <<Did("brightness")>> ELSE <<>>)
                         \o (IF setT THEN <<Did("temperature")>> ELSE <<>>)
                    ELSE IF brightness # attrs["brightness"]
                            \/ temperature # attrs["temperature"]
                           THEN <<Interpolate(
                                    IdealSteps(attrs["brightness"], brightness,
                                               MaxSteps("brightness")),
                                    IdealSteps(attrs["temperature"], temperature,
                                               MaxSteps("temperature")), FALSE)>>
                           ELSE <<>>
       IN /\ calc' = Called(TransitionArgs(duration, brightness, temperature, NoColor), out)
          /\ attrs' = [attrs EXCEPT
                         !["brightness"] = IF setB THEN brightness ELSE @,
                         !["temperature"] = IF setT THEN temperature ELSE @]
    /\ UNCHANGED color

\* The color setter, rgbw.py lines 39-51: white() for a colour without
\* saturation, else _color and the hue setter.
ColorAfterSet(c) == IF saturation_of_color(c) = 0 THEN RGB_WHITE ELSE c
HueAfterSet(c, h) == IF saturation_of_color(c) = 0 THEN h ELSE hue_of_color(c)
ColorCall(c) == IF saturation_of_color(c) = 0 THEN Did("white") ELSE Did("color")

\* RgbwGroup.transition, rgbw.py lines 106-137.
RgbwTransition(duration, c, brightness) ==
    /\ led_type = RGBW
    /\ LET toWhite == c = RGB_WHITE
           fromWhite == ~toWhite /\ color = RGB_WHITE /\ c # NoColor
           \* lines 116-122
           first == IF toWhite THEN <<Did("white")>>
                    ELSE IF fromWhite THEN <<ColorCall(c)>> ELSE <<>>
           color1 == IF toWhite THEN RGB_WHITE
                     ELSE IF fromWhite THEN ColorAfterSet(c) ELSE color
           hue1 == IF fromWhite THEN HueAfterSet(c, attrs["hue"]) ELSE attrs["hue"]
           c1 == IF toWhite \/ fromWhite THEN NoColor ELSE c
           \* lines 124-129
           setC == duration = 0 /\ c1 # NoColor
           setB == duration = 0 /\ brightness # NoTarget
           \* lines 131-137
           rest == IF duration = 0
                     THEN (IF setC THEN <<ColorCall(c1)>> ELSE <<>>)
                          \o (IF setB THEN <<Did("brightness")>> ELSE <<>>)
                     ELSE IF c1 # color1 \/ brightness # attrs["brightness"]
                            THEN IF c1 = NoColor /\ brightness = attrs["brightness"]
                                   THEN <<>>
                                   ELSE IF c1 = NoColor
                                     THEN <<Interpolate(
                                              IdealSteps(attrs["brightness"], brightness,
                                                         MaxSteps("brightness")),
                                              0, FALSE)>>
                                     ELSE <<Interpolate(
                                              IdealSteps(attrs["brightness"], brightness,
                                                         MaxSteps("brightness")),
                                              Steps(hue1, hue_of_color(c1), HUE_STEPS),
                                              TRUE)>>
                            ELSE <<>>
       IN /\ calc' = Called(TransitionArgs(duration, brightness, NoTarget, c), first \o rest)
          /\ color' = IF setC THEN ColorAfterSet(c1) ELSE color1
          /\ attrs' = [attrs EXCEPT
                         !["hue"] = IF setC THEN HueAfterSet(c1, hue1) ELSE hue1,
                         !["brightness"] = IF setB THEN brightness ELSE @]

\* group.transition(duration, ...) up to its return or its call of
\* _transition.
CallTransition ==
    /\ NotCalled
    /\ \E duration \in 0..MaxDuration, brightness \in Targets \cup {NoTarget} :
          \/ DimmerTransition(duration, brightness)
          \/ \E temperature \in Targets \cup {NoTarget} :
                WhiteTransition(duration, brightness, temperature)
          \/ \E c \in Colors \cup {NoColor} : RgbwTransition(duration, c, brightness)
    /\ UNCHANGED <<bvars, pvars, led_type, dpc, dprop, dval, dleft, dsent, draised,
                   nCalls, fvars, ovars>>

TransitionSpec == TransitionInit /\ [][CallTransition]_vars

\* How many of the calls transition made have one of the names.
CallCount(out, names) == Cardinality({i \in 1..Len(out) : out[i].call \in names})
Quiet(out) ==
    \A i \in 1..Len(out) :
        out[i].call = "_transition" /\ out[i].b_steps = 0 /\ out[i].x_steps = 0
\* Exactly one target is given and it is the current value of its property.
OnlyTargetIsCurrent(a) ==
    \/ /\ a.brightness # NoTarget /\ a.temperature = NoTarget /\ a.color = NoColor
       /\ a.brightness = a.was["brightness"]
    \/ /\ a.brightness = NoTarget /\ a.temperature # NoTarget /\ a.color = NoColor
       /\ a.temperature = a.was["temperature"]
    \/ /\ a.brightness = NoTarget /\ a.temperature = NoTarget /\ a.color # NoColor
       /\ a.color = a.wasColor
\* A transition to white, or away from white to a colour.
CrossesWhite(a) ==
    a.color = RGB_WHITE \/ (a.wasColor = RGB_WHITE /\ a.color # NoColor)

\* With duration zero every given target is set once, at once, and
\* _transition is not called.
ZeroDurationSetsAtOnce ==
    (calc.fn = "transition" /\ calc.args.duration = 0) =>
        /\ CallCount(calc.out, {"_transition"}) = 0
        /\ CallCount(calc.out, {"brightness"})
             = (IF calc.args.brightness # NoTarget THEN 1 ELSE 0)
        /\ CallCount(calc.out, {"temperature"})
             = (IF calc.args.temperature # NoTarget THEN 1 ELSE 0)
        /\ CallCount(calc.out, {"color", "white"})
             = (IF calc.args.color # NoColor THEN 1 ELSE 0)
\* A crossing of white changes the colour by one immediate call, and no hue
\* is passed to _transition.
WhiteCrossedAtOnce ==
    (calc.fn = "transition" /\ CrossesWhite(calc.args)) =>
        /\ calc.out # <<>>
        /\ calc.out[1].call \in {"color", "white"}
        /\ CallCount(calc.out, {"color", "white"}) = 1
        /\ \A i \in 1..Len(calc.out) : ~calc.out[i].hue

C28_FailedFrameEndsCommand ==
    /\ [][ConsumerFrameFailed => (~is_ready' /\ selected' = selected)]_vars
    /\ [][ConsumerStartsFrame => ~cfail]_vars
    /\ [][selected' # selected =>
            /\ pc["consumer"] = "c_sel_send"
            /\ sub["consumer"] = "store"
            /\ selected' = cmsg.group]_vars

\* The selection frame of a command failed: every repetition has been
\* skipped, nothing of the command is on the wire and the cached group is
\* the old one.
C28_Witness ==
    /\ cfail
    /\ pc["consumer"] = "c_rep"
    /\ cmsg # Sentinel /\ cmsg.select
    /\ crep = cmsg.reps /\ cmsg.reps >= 2
    /\ selected # cmsg.group
    /\ ~is_ready
    /\ \A i \in 1..Len(wire) : wire[i].ticket # cmsg.ticket

\* C29: active is the number of workers inside Pipeline.run: 0 while the
\* worker waits for a pipeline or has ended, 1 between the increment and the
\* decrement of a run.
C29_ActiveCountsRunningWorkers ==
    /\ active \in {0, 1}
    /\ wpc \in {"w_clear", "w_get", "w_incr", "w_dead"} => active = 0
    /\ wpc \notin {"w_clear", "w_get", "w_incr", "w_decr", "w_dead"} => active = 1

\* C32: on a generation-6 bridge no increment of the sequence byte is lost:
\* whenever no thread is between socket.send and the store of line 234, the
\* byte is 2 plus the successful sends of all threads, modulo 256.
C32_NoIncrementLost ==
    (version >= 6 /\ \A t \in Threads : sub[t] = "idle" \/ sub[t] = "insend")
        => sn = (STARTING_SEQUENTIAL_BYTE + nSent) % 256

\* C34: when the consumer encodes a frame of a generation-6 command, between
\* the readiness test of lines 198 and 212 and get_bytes, the bridge is ready.
C34_EncodesOnlyWhenReady ==
    (version >= 6 /\ pc["consumer"] \in {"c_sel_bytes", "c_bytes"}) => is_ready

\* C35: a run during which stop() was not called (it was called, if at all,
\* before the worker took the pipeline from the queue) executes every stage
\* of its pipeline.
C35_StopWhileIdleHarmless ==
    (wpc = "w_decr" /\ cancelled \in {"no", "stale"}) =>
        \A i \in 1..Len(wpipe) :
            \E j \in 1..Len(elog) : elog[j].index = i /\ elog[j].depth = 0

\* ------------------------------------------------- repeat(iterations=n)
\* Pipelines that end in a repeat with an iteration count from 0 on, and one
\* with a flash and one with a callback.
RepeatPipelines ==
    { <<St("on"), Repeat(n, 1)>> : n \in 0..MaxIter }
    \cup { <<St("on"), St("flash"), Repeat(0, 2)>>,
           <<St("callback"), St("off")>> }

RepeatNext == Worker \/ (\E p \in RepeatPipelines : Enqueue(p)) \/ Stop

RepeatSpec == LegacyGroupInit /\ [][RepeatNext]_vars

\* C39: a repeat stage with iterations = n replays the k stages before it
\* at most n times: while its _repeat call is in progress, the stage
\* executions made inside it number at most n * k.
C39_FiniteRepeatBounded ==
    (Len(wstack) = 1 /\ ~wstack[1].forever) =>
        Cardinality({j \in 1..Len(elog) : elog[j].depth = 1})
            <= (wstack[1].times + 1) * wstack[1].back

\* ------------------------------------------------------------ Group.enqueue
\* Largest number of stages the caller gives its pipeline and of enqueue
\* calls.
MaxStages == 2
MaxCopies == 2

StageNames == {"on", "off"}
objRest == <<bvars, pvars, svars, fvars, calc, color, rated, zone>>

\* The caller appends a stage to its pipeline: stage_func, pipeline.py lines
\* 140-141.
AppendStage(name) ==
    /\ Len(objs.heap[SourceId].pipe) < MaxStages
    /\ objs' = [objs EXCEPT !.heap[SourceId].pipe = Append(@, name)]
    /\ UNCHANGED objRest

\* The object Group.enqueue puts on the queue (group/__init__.py lines
\* 119-121): a new Pipeline to which the stages of the given one have been
\* appended (pipeline.py lines 122-124), with its group set.
SameObject(heap, d) == [heap EXCEPT ![SourceId].group = d]
CopiedObject(heap, d) ==
    Append(heap, [pipe |-> heap[SourceId].pipe, group |-> d])
QueuedId(heap) == Len(heap)

EnqueueOn(d) ==
    /\ Len(objs.taken) <= MaxCopies
    /\ LET heap == CopiedObject(objs.heap, d)
           id == QueuedId(heap)
       IN objs' = [objs EXCEPT
                     !.heap = heap,
                     !.queue[d] = Append(@, id),
                     !.taken = Append(@, Len(objs.heap[SourceId].pipe))]
    /\ UNCHANGED objRest

\* The worker of device d takes the oldest pipeline of its queue:
\* self._queue.get().run(self._event), pipeline.py line 32.
TakeCopy(d) ==
    /\ objs.run[d] = NoRun
    /\ objs.queue[d] # <<>>
    /\ objs' = [objs EXCEPT !.run[d] = Head(objs.queue[d]),
                             !.queue[d] = Tail(@),
                             !.idx[d] = 1]
    /\ UNCHANGED objRest

\* Pipeline.run, lines 111-114: the next stage of self._pipe is applied to
\* self._group, or the run ends.
RunCopy(d) ==
    /\ objs.run[d] # NoRun
    /\ LET p == objs.heap[objs.run[d]] IN
         IF objs.idx[d] <= Len(p.pipe)
           THEN objs' = [objs EXCEPT
                           !.idx[d] = @ + 1,
                           !.log = Append(@, [worker |-> d, group |-> p.group,
                                              id |-> objs.run[d],
                                              index |-> objs.idx[d],
                                              stage |-> p.pipe[objs.idx[d]]])]
           ELSE objs' = [objs EXCEPT !.run[d] = NoRun]
    /\ UNCHANGED objRest

CopyNext ==
    \/ \E name \in StageNames : AppendStage(name)
    \/ \E d \in Devices : EnqueueOn(d) \/ TakeCopy(d) \/ RunCopy(d)

CopySpec == Init /\ [][CopyNext]_vars

\* C40: enqueue leaves the caller's pipeline alone (its group stays None and
\* its stages change only when the caller appends one); every stage a worker
\* executes is applied to the worker's own device and was in the caller's
\* pipeline when that run's pipeline was enqueued.
C40_EnqueueRunsPrivateCopy ==
    /\ [](objs.heap[SourceId].group = NoDevice)
    /\ [][objs'.heap[SourceId].pipe # objs.heap[SourceId].pipe
            => (objs'.queue = objs.queue /\ objs'.log = objs.log)]_vars
    /\ [](\A j \in 1..Len(objs.log) :
            /\ objs.log[j].group = objs.log[j].worker
            /\ objs.log[j].index <= objs.taken[objs.log[j].id])

\* Both devices have run a copy enqueued when the pipeline had one stage, and
\* the caller has appended a second stage since.
C40_Witness ==
    /\ Len(objs.heap[SourceId].pipe) = 2
    /\ \E i, j \in 1..Len(objs.log) :
          /\ objs.log[i].worker = 1 /\ objs.log[j].worker = 2
          /\ objs.taken[objs.log[i].id] = 1
          /\ objs.taken[objs.log[j].id] = 1
    /\ \A d \in Devices : objs.run[d] = NoRun /\ objs.queue[d] = <<>>

\* ------------------------------------------------------------ _transition
\* A duration long enough for _wait to leave the ideal steps unscaled, in
\* units of wait * reps.
LongDuration == 400
LoopDurations == {1, MaxDuration, LongDuration}

\* Values of the transition loop are hundredths: util.transition rounds to
\* two decimals.
Cent(v) == (v * 100) \div One

\* util.transition, util.py lines 28-37:
\* round(start + (end - start) * value / maximum, 2), on hundredths; a tie
\* goes to the even hundredth.
TransitionValue(value, maximum, start, end) ==
    LET num == start * maximum + (end - start) * value
        q == num \div maximum
        r == num % maximum
    IN IF 2 * r < maximum THEN q
       ELSE IF 2 * r > maximum THEN q + 1
       ELSE IF q % 2 = 0 THEN q ELSE q + 1

\* The second property _transition of the led type interpolates.
Second(type) ==
    IF type = WHITE THEN "temperature"
    ELSE IF type = DIMMER THEN "none" ELSE "hue"
SecondSteps(type) ==
    IF type = WHITE THEN MaxSteps("temperature") ELSE HUE_STEPS

\* total_steps of the loop: dimmer.py line 87 iterates over b_steps; the
\* others over max(b_steps, x_steps, 1) (white.py lines 119 and 127, rgbw.py
\* lines 160 and 168, rgbww.py lines 233 and 242).
TotalSteps(type, b, x) == IF type = DIMMER THEN b ELSE Max(Max(b, x), 1)

\* Whether the loop assigns the brightness at index i: dimmer.py line 89,
\* white.py line 131 (i % (total_steps / b_steps) == 0, in exact
\* arithmetic), rgbw.py line 172 and rgbww.py line 246
\* (i % math.ceil(total_steps/b_steps) == 0).
SetsBrightness(type, i, total, b, x) ==
    /\ b > 0
    /\ IF type = DIMMER THEN TRUE
       ELSE IF type = WHITE THEN (i * b) % total = 0
       ELSE i % CeilDiv(total, b) = 0

\* Whether the loop assigns the second property at index i: white.py line 135
\* (elif t_steps > 0), rgbw.py line 176 and rgbww.py line 250.
SetsSecond(type, i, total, b, x) ==
    /\ type # DIMMER
    /\ x > 0
    /\ IF type = WHITE THEN ~SetsBrightness(type, i, total, b, x)
       ELSE i % CeilDiv(total, x) = 0

\* The assignments of iteration i of the loop, in order.
Iteration(type, i, total, b, x, from, to) ==
    (IF SetsBrightness(type, i, total, b, x)
       THEN <<[i |-> i, prop |-> "brightness",
               value |-> TransitionValue(i, total, from.b, to.b)]>>
       ELSE <<>>)
    \o (IF SetsSecond(type, i, total, b, x)
          THEN <<[i |-> i, prop |-> Second(type),
                  value |-> TransitionValue(i, total, from.x, to.x)]>>
          ELSE <<>>)

\* for i in range(total_steps): the assignments of every iteration.
LoopLog(type, total, b, x, from, to) ==
    [k \in 1..total |-> Iteration(type, k - 1, total, b, x, from, to)]

\* The iterations of a log that assign a property, and the value of the
\* property after the last of them.
IndicesOf(log, prop) ==
    {k \in 1..Len(log) : \E j \in 1..Len(log[k]) : log[k][j].prop = prop}
Cached(log, prop, start) ==
    LET ks == IndicesOf(log, prop)
    IN IF ks = {} THEN start
       ELSE LET k == CHOOSE m \in ks : \A n \in ks : n <= m
                j == CHOOSE n \in 1..Len(log[k]) : log[k][n].prop = prop
            IN log[k][j].value

\* _transition of a group (dimmer.py lines 66-92, white.py lines 99-139,
\* rgbw.py lines 140-180, rgbww.py lines 198-263 with a brightness and a hue):
\* ideal steps, the wait, the scaled steps when the wait is zero, the loop.
InnerTransition(type, duration, brightness, second) ==
    LET b0 == IdealSteps(attrs["brightness"], brightness, MaxSteps("brightness"))
        x0 == IF type = DIMMER THEN 0
              ELSE IdealSteps(attrs[Second(type)], second, SecondSteps(type))
        commands == IF type = DIMMER THEN b0 ELSE b0 + x0
        scaled == WaitIsZero(duration, TotalSteps(type, b0, x0), commands)
        sc == ScaleSteps(duration, commands, b0, x0)
        b == IF scaled THEN sc.out[1] ELSE b0
        x == IF scaled THEN sc.out[2] ELSE x0
        total == TotalSteps(type, b, x)
        from == [b |-> Cent(attrs["brightness"]),
                 x |-> IF type = DIMMER THEN 0 ELSE Cent(attrs[Second(type)])]
        to == [b |-> IF brightness = NoTarget THEN from.b ELSE Cent(brightness),
               x |-> IF second = NoTarget THEN from.x ELSE Cent(second)]
        log == LoopLog(type, total, b, x, from, to)
    IN [fn |-> "_transition",
        args |-> [type |-> type, duration |-> duration, b_steps |-> b,
                  x_steps |-> x, total |-> total, from |-> from, to |-> to,
                  brightness |-> brightness, second |-> second],
        out |-> log,
        cached |-> [b |-> Cached(log, "brightness", from.b),
                    x |-> Cached(log, Second(type), from.x)],
        raised |-> "none"]

\* transition calls _transition with a duration that is not zero and a
\* target that is not the current value (dimmer.py lines 62-63, white.py
\* lines 95-96, rgbw.py lines 132-137); the divisions of _wait and
\* _scale_steps succeed.
CallInner ==
    /\ NotCalled
    /\ \E duration \in LoopDurations, brightness \in Targets \cup {NoTarget},
          second \in Targets \cup {NoTarget} :
          /\ led_type = DIMMER => second = NoTarget
          /\ \/ brightness \notin {NoTarget, attrs["brightness"]}
             \/ led_type # DIMMER /\ second \notin {NoTarget, attrs[Second(led_type)]}
          /\ led_type = DIMMER => brightness \notin {NoTarget, attrs["brightness"]}
          /\ calc' = InnerTransition(led_type, duration, brightness, second)
    /\ UNCHANGED <<bvars, pvars, svars, fvars, color, ovars>>

\* A group of any led type of a ready bridge, with the values earlier calls
\* of its setters have left.
LoopInit ==
    /\ ReadyBridge(Versions, {STARTING_SEQUENTIAL_BYTE}, {0})
    /\ PipeInit
    /\ led_type \in LedTypes
    /\ Supported(version, led_type)
    /\ attrs \in [Properties -> Targets]
    /\ attrs["saturation"] = 0
    /\ led_type # WHITE => attrs["temperature"] = One \div 2
    /\ led_type \in {DIMMER, WHITE} => attrs["hue"] = 0
    /\ dpc = "d_idle" /\ dprop = "none" /\ dval = 0 /\ dleft = 0 /\ dsent = 0
    /\ draised = FALSE /\ nCalls = 0
    /\ GroupsInit
    /\ calc = NoCalc
    /\ OtherInit
    /\ color = RGB_WHITE

LoopSpec == LoopInit /\ [][CallInner]_vars

\* The steps of a property of the finished call.
StepsOf(c, prop) == IF prop = "brightness" THEN c.args.b_steps ELSE c.args.x_steps

\* C31: a property with p > 0 steps is assigned only at indices i that are
\* integer multiples of total/p (i * p is a multiple of total), at most p
\* times, and whether it is assigned at an index does not depend on the
\* steps of the other property.
C31_EmitsAtOwnMultiples ==
    calc.fn = "_transition" =>
        LET a == calc.args IN
        /\ \A k \in 1..Len(calc.out) : \A j \in 1..Len(calc.out[k]) :
              LET e == calc.out[k][j] IN
              /\ StepsOf(calc, e.prop) > 0
              /\ (e.i * StepsOf(calc, e.prop)) % a.total = 0
        /\ \A prop \in {"brightness", Second(a.type)} :
              Cardinality(IndicesOf(calc.out, prop)) <= StepsOf(calc, prop)
        /\ \A i \in 0..(a.total - 1) :
              /\ SetsBrightness(a.type, i, a.total, a.b_steps, a.x_steps)
                   = SetsBrightness(a.type, i, a.total, a.b_steps, 0)
              /\ SetsSecond(a.type, i, a.total, a.b_steps, a.x_steps)
                   = SetsSecond(a.type, i, a.total, 0, a.x_steps)

\* C36: after a _transition that ran to its end, the last value assigned to
\* each property whose target differs from its value at the start, and the
\* value the group holds for it, are the target.
C36_EndsAtTarget ==
    calc.fn = "_transition" =>
        LET a == calc.args IN
        /\ a.to.b # a.from.b =>
              /\ calc.cached.b = a.to.b
              /\ IndicesOf(calc.out, "brightness") # {}
        /\ a.to.x # a.from.x =>
              /\ calc.cached.x = a.to.x
              /\ IndicesOf(calc.out, Second(a.type)) # {}

\* --------------------------------------------------------------------- rate
\* The arguments of the rate decorators: rate(reps=1), rate(wait=0.025,
\* reps=1) and rate(wait=0.025, reps=2).
RateArgs == {<<MIN_WAIT, 1>>, <<25, 1>>, <<25, 2>>}
ratedRest == <<bvars, pvars, svars, fvars, calc, color, objs, zone>>

\* A thread calls a rate-limited method: wrapper, line 31.
RateSaveWait(t) ==
    /\ rated.pc[t] = "idle"
    /\ \E a \in RateArgs :
          rated' = [rated EXCEPT !.pc[t] = "save_reps", !.args[t] = a,
                                 !.saved_wait[t] = rated.wait,
                                 !.raised[t] = FALSE]
    /\ UNCHANGED ratedRest

\* line 32
RateSaveReps(t) ==
    /\ rated.pc[t] = "save_reps"
    /\ rated' = [rated EXCEPT !.pc[t] = "set_wait", !.saved_reps[t] = rated.reps]
    /\ UNCHANGED ratedRest

\* line 33
RateSetWait(t) ==
    /\ rated.pc[t] = "set_wait"
    /\ rated' = [rated EXCEPT !.pc[t] = "set_reps", !.wait = rated.args[t][1]]
    /\ UNCHANGED ratedRest

\* line 34
RateSetReps(t) ==
    /\ rated.pc[t] = "set_reps"
    /\ rated' = [rated EXCEPT !.pc[t] = "function", !.reps = rated.args[t][2]]
    /\ UNCHANGED ratedRest

\* line 35: the function returns, or raises and the exception leaves the
\* wrapper.
RateFunction(t) ==
    /\ rated.pc[t] = "function"
    /\ \/ rated' = [rated EXCEPT !.pc[t] = "restore_wait"]
       \/ rated' = [rated EXCEPT !.pc[t] = "idle", !.raised[t] = TRUE]
    /\ UNCHANGED ratedRest

\* line 36
RateRestoreWait(t) ==
    /\ rated.pc[t] = "restore_wait"
    /\ rated' = [rated EXCEPT !.pc[t] = "restore_reps", !.wait = rated.saved_wait[t]]
    /\ UNCHANGED ratedRest

\* line 37
RateRestoreReps(t) ==
    /\ rated.pc[t] = "restore_reps"
    /\ rated' = [rated EXCEPT !.pc[t] = "idle", !.reps = rated.saved_reps[t]]
    /\ UNCHANGED ratedRest

RateNext ==
    \E t \in Callers :
        \/ RateSaveWait(t) \/ RateSaveReps(t) \/ RateSetWait(t) \/ RateSetReps(t)
        \/ RateFunction(t) \/ RateRestoreWait(t) \/ RateRestoreReps(t)

RateSpec == LegacyGroupInit /\ [][RateNext]_vars

\* C38: while no thread is inside a rate-limited method of the group, the
\* group's wait and reps are MIN_WAIT and REPS.
C38_RateRestoresDefaults ==
    (\A t \in Callers : rated.pc[t] = "idle") =>
        rated.wait = MIN_WAIT /\ rated.reps = REPS

\* ------------------------------------------------- selection on the wire
\* Most frames a run of the consumer transmits.
MaxWire == 3

\* The legacy command sets: CommandSetWhiteLegacy and CommandSetRgbwLegacy.
Families == {WHITE, RGBW}
\* Commands built with select=True and the command each names as its
\* select_command (legacy.py lines 119-153 and 185-217).
SelectCommand(op) ==
    IF op \in {"brighter", "brightness"} THEN "on"
    ELSE IF op = "night_light" THEN "off" ELSE "none"
FamilyOps(family) ==
    {"on", "off", "night_light"}
        \cup (IF family = WHITE THEN {"brighter"} ELSE {"brightness"})

ZoneFrame(family, number, op, kind, cached) ==
    [family |-> family, number |-> number, kind |-> kind,
     op |-> IF kind = "select" THEN SelectCommand(op) ELSE op,
     select |-> SelectCommand(op) # "none", cached |-> cached]

\* The test of bridge.py line 202.
SelectsFirst(op, number) == SelectCommand(op) # "none" /\ zone.selected # number

\* The consumer of a ready legacy bridge handles one command, bridge.py lines
\* 196-224: the selection frame when line 202 asks for it, then the command
\* reps times while the sends succeed; sent is the number of sends that
\* succeed before one fails; after a failure line 224 makes the bridge ready
\* again.
ConsumeCommand(family, number, op, reps, sent) ==
    LET first == SelectsFirst(op, number)
        frames == (IF first
                     THEN <<ZoneFrame(family, number, op, "select", zone.selected)>>
                     ELSE <<>>)
                  \o [k \in 1..reps |->
                        ZoneFrame(family, number, op, "primary", zone.selected)]
    IN /\ Len(zone.wire) + Len(frames) <= MaxWire
       /\ sent <= Len(frames)
       /\ zone' = [selected |-> IF first /\ sent >= 1 THEN number ELSE zone.selected,
                   wire |-> zone.wire \o SubSeq(frames, 1, sent)]
       /\ UNCHANGED <<bvars, pvars, svars, fvars, calc, color, objs, rated>>

ZoneNext ==
    \E family \in Families, number \in Groups, reps \in 1..MaxReps :
        \E op \in FamilyOps(family), sent \in 0..(reps + 1) :
            ConsumeCommand(family, number, op, reps, sent)

ZoneSpec == LegacyGroupInit /\ [][ZoneNext]_vars

\* A frame that addresses a zone: an on or off frame, sent as a command or as
\* the selection of another command.
AddressesZone(f) == f.op \in {"on", "off"}

\* C37: a frame of a command that requires selection and was transmitted
\* without its selection frame follows, as the latest frame addressing a
\* zone, a frame of the same device.
C37_SelectedIsLastAddressed ==
    \A j \in 1..Len(zone.wire) :
        LET f == zone.wire[j]
            zs == {i \in 1..(j - 1) : AddressesZone(zone.wire[i])}
        IN (f.kind = "primary" /\ f.select /\ f.cached = f.number) =>
              /\ zs # {}
              /\ LET last == zone.wire[CHOOSE m \in zs : \A n \in zs : n <= m]
                 IN last.family = f.family /\ last.number = f.number

\* ------------------------------------------------------------ the bridge lock
\* A pipeline whose run takes the lock in incr_active and decr_active only.
LockPipelines == { <<St("callback")>> }

\* The steps of the worker of a group that runs such a pipeline. The worker
\* is followed on bridges below generation 6, next to the consumer and
\* close(); on a bridge of generation 6 the consumer, the keep-alive thread,
\* the handshakes and close() are followed.
LockWorker ==
    /\ version < 6
    /\ \/ WorkerClear \/ WorkerGet \/ WorkerIncr \/ WorkerFor \/ WorkerDecr
       \/ ExecuteStage \/ StageReturn
       \/ (\E raises \in BOOLEAN : Callback(raises))

LockEnqueue == version < 6 /\ \E p \in LockPipelines : LiveEnqueue(p)

LockNext ==
    \/ Consume \/ KeepAlive \/ Handshake \/ SendRaw \/ LiveClose \/ LiveSubmit
    \/ LockWorker \/ LockEnqueue

\* The acquisitions of the lock: bridge.py lines 196, 248, 301 and 306, and
\* lines 139 and 144.
Acquisitions == {"c_lock", "k_lock", "i_lock"}
WorkerAcquisitions == {"w_incr", "w_decr"}

\* Every thread is scheduled as long as it can take a step, and the
\* consumer, blocked in the acquisition of the lock while the keep-alive
\* thread repeats the handshake, gets the lock if it is released again and
\* again: _reconnect sleeps RECONNECT_TIME between two handshakes (line 273).
LockFairSpec ==
    /\ Init /\ [][LockNext]_vars
    /\ \A t \in Threads : WF_vars(ThreadStep(t))
    /\ WF_vars(LockWorker)
    /\ SF_vars(ConsumeLock)

====
